---- MODULE Spec2Model ----
(***************************************************************************)
(* Model of the OAuth token broker: the token lifecycle engine of          *)
(* app/services/oauth_base.py (store_token, get_token, delete_token), the  *)
(* refresh operation of the three provider adapters it calls, the provider *)
(* registry of app/config/providers.py and app/services/oauth_factory.py,  *)
(* and the routes of app/routers/oauth.py that use them.                   *)
(*                                                                         *)
(* Time is counted in ticks of 1/TicksPerSec second, so that time.time()   *)
(* (a float) and int(time.time()) (its truncation) are both represented.   *)
(***************************************************************************)
EXTENDS Integers, Sequences, FiniteSets, TLC

\* ---------------------------------------------------------------- bounds
\* int(time.time()) of the first instant of a behaviour, in seconds
Epoch == 1000
\* clock resolution: ticks per second
TicksPerSec == 2
\* the clock runs over Epoch*TicksPerSec .. Epoch*TicksPerSec + MaxTicks
MaxTicks == 3
\* longest duration of one provider call, in ticks
MaxElapsed == 1
\* authorization URLs one Twitter service instance generates in a behaviour
MaxIssued == 2

\* ------------------------------------------------------- program constants
\* the refresh window of get_token, in seconds
REFRESH_WINDOW == 60
\* HTTP status codes used by the code
HTTP_200 == 200
HTTP_400 == 400
HTTP_401 == 401
HTTP_404 == 404
HTTP_500 == 500
\* lifetimes of the synthetic tokens
MOCK_EXPIRES_IN == 3600
TWITTER_MOCK_EXPIRES_IN == 7200
\* expires_in defaults applied when the provider's reply has none
GOOGLE_DEFAULT_EXPIRES_IN == 3600
TWITTER_DEFAULT_EXPIRES_IN == 7200
\* RedirectResponse's default status code
HTTP_307 == 307
\* the positional arguments the callback passes to exchange_code_for_token
CALLBACK_EXCHANGE_ARGS == 3
\* os.urandom(30) in generate_code_verifier
VERIFIER_RANDOM_BYTES == 30

\* ------------------------------------------------------------ value domains
\* Python None in an Optional[str] field
None == "<None>"
\* Python None where an OAuthToken is expected
NoToken == [none |-> TRUE]
\* Python None where an OAuthTokenResponse is expected
NoResponse == [none |-> TRUE, response |-> TRUE]

Users == {"u1", "u2"}
AccessTokens == {"a1", "a2"}
RefreshTokens == {"r1", "r2"}
\* values an Optional[str] refresh_token can take: None, the empty string, a token
OptRefreshTokens == {None, ""} \cup RefreshTokens
ExpiresInValues == {REFRESH_WINDOW - 1, REFRESH_WINDOW, REFRESH_WINDOW + 1}

\* the adapter classes of app/services/providers
AdapterClasses == {"sketchfab", "google", "twitter"}
\* client_id settings: unset (Settings default ""), the placeholder, a real id
Placeholder(p) ==
    CASE p = "sketchfab" -> "your_sketchfab_client_id"
      [] p = "google" -> "your_google_client_id_here"
      [] p = "twitter" -> "your_twitter_client_id"
      [] OTHER -> ""

\* class OAuthTokenResponse
OAuthTokenResponse(access_token, token_type, expires_in, refresh_token, scope) ==
    [access_token |-> access_token, token_type |-> token_type,
     expires_in |-> expires_in, refresh_token |-> refresh_token, scope |-> scope]

\* class OAuthToken
OAuthToken(user_id, p, access_token, token_type, expires_in, refresh_token, scope, expires_at) ==
    [user_id |-> user_id, provider |-> p, access_token |-> access_token,
     token_type |-> token_type, expires_in |-> expires_in,
     refresh_token |-> refresh_token, scope |-> scope, expires_at |-> expires_at]

\* the normalized token responses a caller hands to store_token
\* the token type and the scope issued with each access token ("bearer" is what
\* Twitter sends): neither decides anything in the code, so they vary with the
\* access token instead of independently
TokenTypeOf(a) == IF a = "a1" THEN "Bearer" ELSE "bearer"
ScopeOf(a) == IF a = "a1" THEN "read write" ELSE None
TokenResponses ==
    {OAuthTokenResponse(a, TokenTypeOf(a), e, r, ScopeOf(a)) :
        a \in AccessTokens, e \in ExpiresInValues, r \in OptRefreshTokens}

\* The tokens a caller stores for each user: every normalized response for the
\* first user, and two responses without a usable refresh token for the other.
OtherUserResponses ==
    {OAuthTokenResponse("a1", "Bearer", REFRESH_WINDOW, None, None),
     OAuthTokenResponse("a2", "bearer", REFRESH_WINDOW + 1, "", "openid")}
Inputs(u) == IF u = "u1" THEN TokenResponses ELSE OtherUserResponses

\* ------------------------------------------------------------------- time
\* int(time.time()) for a clock value in ticks
IntTime(t) == t \div TicksPerSec

StartClock == Epoch * TicksPerSec
EndClock == StartClock + MaxTicks

\* mutant of TruthyStr: "is not None" instead of truthiness
TruthyStr_is_not_none(s) == s # None

\* Python truthiness of an Optional[str]
TruthyStr(s) == s # None /\ s # ""
\* Python truthiness of an Optional[int]; expires_at is never None once stored
TruthyInt(n) == n # 0

\* ------------------------------------------------------- provider replies
\* A JSON object's key is absent (<<>>) or present with a value (<<v>>).
Absent == <<>>
Has(field) == field # Absent
\* d["k"]: the value; the caller checks Has first (KeyError otherwise)
Val(field) == field[1]
\* d.get("k"): None when the key is absent
GetOrNone(field) == IF Has(field) THEN field[1] ELSE None
\* d.get("k", default)
GetOr(field, default) == IF Has(field) THEN field[1] ELSE default

\* " ".join(items)
JoinSpace(items) ==
    LET join[i \in 0..Len(items)] ==
            IF i = 0 THEN ""
            ELSE IF i = 1 THEN items[1]
            ELSE join[i - 1] \o " " \o items[i]
    IN  join[Len(items)]
\* scope = token_data.get("scope"); if isinstance(scope, list): scope = " ".join(scope)
normalized_scope(body) ==
    IF Has(body.scope_list) THEN JoinSpace(Val(body.scope_list)) ELSE GetOrNone(body.scope)

\* The "scope" key of a token body holds a string (field scope) or a list of
\* strings (field scope_list); at most one of the two fields is present.
\* What the provider's token endpoint answers to one request: the transport
\* fails (requests raises RequestException), or a response with a status and a
\* JSON body arrives.
TokenBody(access_token, expires_in, refresh_token) ==
    [access_token |-> access_token,
     token_type |-> IF Has(access_token) THEN <<TokenTypeOf(Val(access_token))>> ELSE Absent,
     expires_in |-> expires_in,
     refresh_token |-> refresh_token,
     scope |-> IF Has(access_token) /\ ScopeOf(Val(access_token)) # None
               THEN <<ScopeOf(Val(access_token))>> ELSE Absent,
     scope_list |-> Absent]
TokenBodies ==
    {TokenBody(a, e, r) :
        a \in {Absent} \cup {<<x>> : x \in AccessTokens},
        e \in {Absent} \cup {<<x>> : x \in ExpiresInValues},
        r \in {Absent} \cup {<<x>> : x \in RefreshTokens}}
ErrorBody == [access_token |-> Absent, token_type |-> Absent, expires_in |-> Absent,
              refresh_token |-> Absent, scope |-> Absent, scope_list |-> Absent]
TransportFailure == [kind |-> "transport", status |-> 0, body |-> ErrorBody]
TokenReplies ==
    {TransportFailure}
    \cup {[kind |-> "response", status |-> s, body |-> ErrorBody] : s \in {HTTP_400, HTTP_401, HTTP_500}}
    \cup {[kind |-> "response", status |-> HTTP_200, body |-> b] : b \in TokenBodies}

\* the provider's replies to the refresh request of a call
RefreshReplies ==
    {TransportFailure,
     [kind |-> "response", status |-> HTTP_401, body |-> ErrorBody],
     [kind |-> "response", status |-> HTTP_200,
      body |-> TokenBody(<<"a2">>, <<REFRESH_WINDOW + 1>>, <<"r2">>)],
     [kind |-> "response", status |-> HTTP_200,
      body |-> TokenBody(<<"a2">>, <<REFRESH_WINDOW - 1>>, Absent)]}

\* Outcome of an adapter operation: a value, or an exception raised to the
\* caller; sent counts the requests that went to the provider.
Returned(value, sent) ==
    [ok |-> TRUE, value |-> value, exc |-> "", status |-> 0, sent |-> sent]
Raised(exc, status, sent) ==
    [ok |-> FALSE, value |-> NoResponse, exc |-> exc, status |-> status, sent |-> sent]

\* absent or placeholder client id: the adapters answer with synthetic data
IsPlaceholder(p, client_id) == client_id = Placeholder(p) \/ client_id = ""

\* SketchfabOAuthService._get_mock_token
sketchfab_get_mock_token(t) ==
    OAuthTokenResponse("mock_access_token_" \o ToString(IntTime(t)), "Bearer",
                       MOCK_EXPIRES_IN,
                       "mock_refresh_token_" \o ToString(IntTime(t)), "read write")

\* GoogleOAuthService._get_mock_token
google_get_mock_token(t) ==
    OAuthTokenResponse("mock_google_access_token_" \o ToString(IntTime(t)), "Bearer",
                       MOCK_EXPIRES_IN,
                       "mock_google_refresh_token_" \o ToString(IntTime(t)),
                       "openid email profile")

\* TwitterOAuthService._get_mock_token
twitter_get_mock_token(t) ==
    OAuthTokenResponse("mock_twitter_access_token_" \o ToString(IntTime(t)), "Bearer",
                       TWITTER_MOCK_EXPIRES_IN,
                       "mock_twitter_refresh_token_" \o ToString(IntTime(t)),
                       "tweet.read users.read offline.access")

\* SketchfabOAuthService.refresh_token
sketchfab_refresh_token(client_id, refresh_token, reply, t) ==
    IF IsPlaceholder("sketchfab", client_id)
    THEN Returned(sketchfab_get_mock_token(t), 0)
    ELSE IF reply.kind = "transport"
    THEN Raised("RequestException", 0, 1)
    ELSE IF reply.status # HTTP_200
    THEN Raised("HTTPException", reply.status, 1)
    ELSE IF ~Has(reply.body.access_token) \/ ~Has(reply.body.token_type)
            \/ ~Has(reply.body.expires_in)
    THEN Raised("KeyError", 0, 1)
    ELSE IF Has(reply.body.scope_list)
    THEN Raised("ValidationError", 0, 1)
    ELSE Returned(OAuthTokenResponse(Val(reply.body.access_token),
                                     Val(reply.body.token_type),
                                     Val(reply.body.expires_in),
                                     GetOrNone(reply.body.refresh_token),
                                     GetOrNone(reply.body.scope)), 1)

\* mutant of google_refresh_token: the request is sent a second time when the
\* first attempt fails
google_refresh_token_retries(client_id, refresh_token, reply, t) ==
    IF IsPlaceholder("google", client_id)
    THEN Returned(google_get_mock_token(t), 0)
    ELSE IF reply.kind = "transport"
    THEN Raised("HTTPException", HTTP_500, 2)
    ELSE IF reply.status # HTTP_200
    THEN Raised("HTTPException", HTTP_400, 2)
    ELSE IF ~Has(reply.body.access_token) \/ ~Has(reply.body.token_type)
    THEN Raised("KeyError", 0, 1)
    ELSE Returned(OAuthTokenResponse(Val(reply.body.access_token),
                                     Val(reply.body.token_type),
                                     GetOr(reply.body.expires_in, GOOGLE_DEFAULT_EXPIRES_IN),
                                     refresh_token,
                                     normalized_scope(reply.body)), 1)

\* GoogleOAuthService.refresh_token
google_refresh_token(client_id, refresh_token, reply, t) ==
    IF IsPlaceholder("google", client_id)
    THEN Returned(google_get_mock_token(t), 0)
    ELSE IF reply.kind = "transport"
    THEN Raised("HTTPException", HTTP_500, 1)
    ELSE IF reply.status # HTTP_200
    THEN Raised("HTTPException", HTTP_400, 1)
    ELSE IF ~Has(reply.body.access_token) \/ ~Has(reply.body.token_type)
    THEN Raised("KeyError", 0, 1)
    ELSE Returned(OAuthTokenResponse(Val(reply.body.access_token),
                                     Val(reply.body.token_type),
                                     GetOr(reply.body.expires_in, GOOGLE_DEFAULT_EXPIRES_IN),
                                     refresh_token,
                                     normalized_scope(reply.body)), 1)

\* TwitterOAuthService.refresh_token
twitter_refresh_token(client_id, refresh_token, reply, t) ==
    IF IsPlaceholder("twitter", client_id)
    THEN Returned(twitter_get_mock_token(t), 0)
    ELSE IF reply.kind = "transport" \/ reply.status # HTTP_200
            \/ ~Has(reply.body.access_token) \/ ~Has(reply.body.token_type)
    THEN Raised("HTTPException", HTTP_400, 1)
    ELSE Returned(OAuthTokenResponse(Val(reply.body.access_token),
                                     Val(reply.body.token_type),
                                     GetOr(reply.body.expires_in, TWITTER_DEFAULT_EXPIRES_IN),
                                     GetOr(reply.body.refresh_token, refresh_token),
                                     normalized_scope(reply.body)), 1)

\* self.refresh_token(...): dispatch on the class of the service instance
refresh_token(p, client_id, rt, reply, t) ==
    CASE p = "sketchfab" -> sketchfab_refresh_token(client_id, rt, reply, t)
      [] p = "google" -> google_refresh_token(client_id, rt, reply, t)
      [] p = "twitter" -> twitter_refresh_token(client_id, rt, reply, t)

\* ------------------------------------------------------ PKCE (Twitter adapter)
\* Outcome of an adapter operation that failed, with the detail of the
\* HTTPException ("" for other exceptions)
Failure(exc, status, detail, sent) ==
    [ok |-> FALSE, value |-> NoResponse, exc |-> exc, status |-> status,
     detail |-> detail, sent |-> sent]
\* Outcome of an adapter operation that returned a value
Success(value, sent) ==
    [ok |-> TRUE, value |-> value, exc |-> "", status |-> 0, detail |-> "", sent |-> sent]

\* the state values OAuth2Session.authorization_url draws (generate_token())
States == {"s1", "s2"}
\* the code_verifier query parameter of a callback: absent, empty, or supplied
CallerVerifiers == {None, "", "caller_verifier"}
\* the state query parameter of a callback
OptStates == {None} \cup States

\* generate_code_verifier: the n-th random verifier the instance generates
generate_code_verifier(n) == "verifier" \o ToString(n)
\* generate_code_challenge: urlsafe-base64 of the SHA-256 digest, padding removed
generate_code_challenge(code_verifier) == "b64(sha256(" \o code_verifier \o "))"

\* mutant of twitter_get_authorization_url: the verifier is not stored
twitter_get_authorization_url_unregistered(cvs, client_id, state, code_verifier) ==
    [url |-> [client_id |-> client_id, state |-> state,
              code_challenge |-> generate_code_challenge(code_verifier),
              code_challenge_method |-> "S256"],
     code_verifiers |-> cvs]

\* TwitterOAuthService.get_authorization_url with the verifier and the state
\* drawn for this call: the URL returned and self._code_verifiers afterwards
twitter_get_authorization_url(cvs, client_id, state, code_verifier) ==
    [url |-> [client_id |-> client_id, state |-> state,
              code_challenge |-> generate_code_challenge(code_verifier),
              code_challenge_method |-> "S256"],
     code_verifiers |-> {item \in cvs : item[1] # state} \cup {<<state, code_verifier>>}]

\* line 96 of exchange_code_for_token:
\* not code_verifier and state and state in self._code_verifiers
UsesStoredVerifier(cvs, code_verifier, state) ==
    ~TruthyStr(code_verifier) /\ TruthyStr(state) /\ (\E item \in cvs : item[1] = state)

\* twitter.fetch_token(...) and the conversion of its result (lines 105-137):
\* every exception, oauthlib's and KeyError included, becomes HTTPException(400)
\* with detail str(e)
twitter_fetch_token(reply) ==
    IF reply.kind = "transport" \/ reply.status # HTTP_200
       \/ ~Has(reply.body.access_token) \/ ~Has(reply.body.token_type)
    THEN Failure("HTTPException", HTTP_400, "str(e)", 1)
    ELSE Success(OAuthTokenResponse(Val(reply.body.access_token),
                                    Val(reply.body.token_type),
                                    GetOr(reply.body.expires_in, TWITTER_DEFAULT_EXPIRES_IN),
                                    GetOrNone(reply.body.refresh_token),
                                    normalized_scope(reply.body)), 1)

\* A call of TwitterOAuthService.exchange_code_for_token in progress: where it
\* stands, its arguments, whether its verifier came out of self._code_verifiers,
\* and its outcome once it is done.
Exchange(pc, code_verifier, state, from_store, result) ==
    [pc |-> pc, op |-> "exchange", code_verifier |-> code_verifier, state |-> state,
     from_store |-> from_store, result |-> result]
NoOutcome == Failure("", 0, "", 0)
MissingCodeVerifier == Failure("HTTPException", HTTP_400, "invalid_request", 0)

\* lines 92-96 (and 99 when line 97 is skipped): the synthetic token without
\* credentials, else the test that decides whether line 97 runs
exchange_begin(cvs, client_id, code_verifier, state, t) ==
    IF IsPlaceholder("twitter", client_id)
    THEN Exchange("done", code_verifier, state, FALSE, Success(twitter_get_mock_token(t), 0))
    ELSE IF UsesStoredVerifier(cvs, code_verifier, state)
    THEN Exchange("pop", code_verifier, state, FALSE, NoOutcome)
    ELSE IF ~TruthyStr(code_verifier)
    THEN Exchange("done", code_verifier, state, FALSE, MissingCodeVerifier)
    ELSE Exchange("fetch", code_verifier, state, FALSE, NoOutcome)

\* mutant of exchange_pop: the verifier is read and left in the dictionary
exchange_pop_keeps(cvs, call) ==
    IF \E item \in cvs : item[1] = call.state
    THEN LET v == (CHOOSE item \in cvs : item[1] = call.state)[2]
         IN  [call |-> Exchange("fetch", v, call.state, TRUE, NoOutcome),
              code_verifiers |-> cvs,
              popped |-> <<<<call.state, v>>>>]
    ELSE [call |-> Exchange("done", call.code_verifier, call.state, FALSE,
                            Failure("KeyError", 0, "", 0)),
          code_verifiers |-> cvs,
          popped |-> <<>>]

\* line 97 (and 99): self._code_verifiers.pop(state), one dictionary operation;
\* KeyError when the state is no longer there
exchange_pop(cvs, call) ==
    IF \E item \in cvs : item[1] = call.state
    THEN LET v == (CHOOSE item \in cvs : item[1] = call.state)[2]
         IN  [call |-> IF TruthyStr(v)
                       THEN Exchange("fetch", v, call.state, TRUE, NoOutcome)
                       ELSE Exchange("done", v, call.state, TRUE, MissingCodeVerifier),
              code_verifiers |-> {item \in cvs : item[1] # call.state},
              popped |-> <<<<call.state, v>>>>]
    ELSE [call |-> Exchange("done", call.code_verifier, call.state, FALSE,
                            Failure("KeyError", 0, "", 0)),
          code_verifiers |-> cvs,
          popped |-> <<>>]

\* lines 105-137: the token request with the verifier at hand
exchange_fetch(call, reply) ==
    Exchange("done", call.code_verifier, call.state, call.from_store,
             twitter_fetch_token(reply))

\* whole of TwitterOAuthService.exchange_code_for_token, run without
\* interruption: the outcome and self._code_verifiers afterwards
twitter_exchange_code_for_token(cvs, client_id, code_verifier, state, reply, t) ==
    LET begun == exchange_begin(cvs, client_id, code_verifier, state, t)
        popped == IF begun.pc = "pop" THEN exchange_pop(cvs, begun)
                  ELSE [call |-> begun, code_verifiers |-> cvs, popped |-> <<>>]
        call == IF popped.call.pc = "fetch" THEN exchange_fetch(popped.call, reply)
                ELSE popped.call
    IN  [result |-> call.result, code_verifiers |-> popped.code_verifiers,
         code_verifier |-> call.code_verifier, from_store |-> call.from_store]

\* ------------------------------------- exchange and user info of the adapters
\* A reply of the provider to a request: the transport fails, or a response
\* arrives with a status, a JSON body, and for an error response the error its
\* JSON body names ("" for a response without content).
Reply(kind, status, body, error) ==
    [kind |-> kind, status |-> status, body |-> body, error |-> error]
ProviderErrors == {"", "invalid_grant"}
ErrorReplies(body) ==
    {Reply("response", st, body, e) : st \in {HTTP_400, HTTP_401, HTTP_500}, e \in ProviderErrors}
\* the scope lists a provider sends
ScopeLists == {<<"read", "write">>, <<"openid">>}
\* a complete token body whose scope is a list
ListScopeBody(items) ==
    [TokenBody(<<"a1">>, <<REFRESH_WINDOW + 1>>, <<"r1">>) EXCEPT
        !.scope = Absent, !.scope_list = <<items>>]
\* replies of the token endpoint to an exchange or a refresh
ProviderReplies ==
    {Reply("transport", 0, ErrorBody, "")}
    \cup ErrorReplies(ErrorBody)
    \cup {Reply("response", HTTP_200, b, "") :
            b \in {TokenBody(<<"a1">>, <<REFRESH_WINDOW + 1>>, <<"r1">>),
                   TokenBody(<<"a2">>, Absent, Absent),
                   TokenBody(<<"a2">>, <<REFRESH_WINDOW + 1>>, Absent),
                   TokenBody(Absent, <<REFRESH_WINDOW + 1>>, Absent)}
                  \cup {ListScopeBody(items) : items \in ScopeLists}}

\* class UserInfo (id and username, the required fields)
UserInfo(id, username) == [id |-> id, username |-> username]
\* the JSON of a user-info response: the id and the name keys, present or not
UserBody(id, username) == [id |-> id, username |-> username]
NoUserBody == UserBody(Absent, Absent)
\* replies of the user-info endpoint
UserReplies ==
    {Reply("transport", 0, NoUserBody, "")}
    \cup ErrorReplies(NoUserBody)
    \cup {Reply("response", HTTP_200, b, "") :
            b \in {UserBody(<<"uid1">>, <<"name1">>), UserBody(<<"uid1">>, Absent),
                   NoUserBody}}

\* BaseOAuthService.handle_request_error: the response's status and its JSON
\* error body; a body that is not JSON (the empty one) is wrapped as the
\* error_description of an "unknown_error"
handle_request_error(reply) ==
    <<reply.status,
      IF reply.error = "" THEN "unknown_error: " \o reply.error ELSE reply.error>>
\* response.json() if response.content else {"error": "Unknown error"}
json_or_unknown(reply) == IF reply.error = "" THEN "Unknown error" ELSE reply.error

\* SketchfabOAuthService.exchange_code_for_token(code)
sketchfab_exchange_code_for_token(client_id, reply, t) ==
    IF IsPlaceholder("sketchfab", client_id)
    THEN Success(sketchfab_get_mock_token(t), 0)
    ELSE IF reply.kind = "transport"
    THEN Failure("RequestException", 0, "", 1)
    ELSE IF reply.status # HTTP_200
    THEN Failure("HTTPException", handle_request_error(reply)[1],
                 handle_request_error(reply)[2], 1)
    ELSE IF ~Has(reply.body.access_token) \/ ~Has(reply.body.token_type)
            \/ ~Has(reply.body.expires_in)
    THEN Failure("KeyError", 0, "", 1)
    ELSE IF Has(reply.body.scope_list)
    THEN Failure("ValidationError", 0, "", 1)
    ELSE Success(OAuthTokenResponse(Val(reply.body.access_token),
                                    Val(reply.body.token_type),
                                    Val(reply.body.expires_in),
                                    GetOrNone(reply.body.refresh_token),
                                    GetOrNone(reply.body.scope)), 1)

\* GoogleOAuthService.exchange_code_for_token(code, code_verifier, state)
google_exchange_code_for_token(client_id, reply, t) ==
    IF IsPlaceholder("google", client_id)
    THEN Success(google_get_mock_token(t), 0)
    ELSE IF reply.kind = "transport"
    THEN Failure("HTTPException", HTTP_500, "Error during token exchange: str(e)", 1)
    ELSE IF reply.status # HTTP_200
    THEN Failure("HTTPException", HTTP_400, json_or_unknown(reply), 1)
    ELSE IF ~Has(reply.body.access_token)
    THEN Failure("HTTPException", HTTP_500,
                 "Invalid token response from Google: missing access_token", 1)
    ELSE IF ~Has(reply.body.token_type)
    THEN Failure("KeyError", 0, "", 1)
    ELSE Success(OAuthTokenResponse(Val(reply.body.access_token),
                                    Val(reply.body.token_type),
                                    GetOr(reply.body.expires_in, GOOGLE_DEFAULT_EXPIRES_IN),
                                    GetOrNone(reply.body.refresh_token),
                                    normalized_scope(reply.body)), 1)

\* SketchfabOAuthService.get_user_info
sketchfab_get_user_info(client_id, reply) ==
    IF IsPlaceholder("sketchfab", client_id)
    THEN Success(UserInfo("mock_user_123", "mock_sketchfab_user"), 0)
    ELSE IF reply.kind = "transport"
    THEN Failure("RequestException", 0, "", 1)
    ELSE IF reply.status # HTTP_200
    THEN Failure("HTTPException", handle_request_error(reply)[1],
                 handle_request_error(reply)[2], 1)
    ELSE IF ~Has(reply.body.id) \/ ~Has(reply.body.username)
    THEN Failure("KeyError", 0, "", 1)
    ELSE Success(UserInfo(Val(reply.body.id), Val(reply.body.username)), 1)

\* GoogleOAuthService.get_user_info
google_get_user_info(client_id, reply) ==
    IF IsPlaceholder("google", client_id)
    THEN Success(UserInfo("12345678901234567890", "Mock Google User"), 0)
    ELSE IF reply.kind = "transport"
    THEN Failure("HTTPException", HTTP_500, "Error retrieving user info: str(e)", 1)
    ELSE IF reply.status # HTTP_200
    THEN Failure("HTTPException", HTTP_400, json_or_unknown(reply), 1)
    ELSE IF ~Has(reply.body.id)
    THEN Failure("KeyError", 0, "", 1)
    ELSE IF ~Has(reply.body.username)
    THEN Failure("ValidationError", 0, "", 1)
    ELSE Success(UserInfo(Val(reply.body.id), Val(reply.body.username)), 1)

\* TwitterOAuthService.get_user_info: every exception raised inside the try
\* block, the HTTPException of a non-200 response included, is replaced by
\* HTTPException(400, detail=str(e))
twitter_get_user_info(client_id, reply) ==
    IF IsPlaceholder("twitter", client_id)
    THEN Success(UserInfo("1234567890", "mock_twitter_user"), 0)
    ELSE IF reply.kind = "transport" \/ reply.status # HTTP_200
            \/ ~Has(reply.body.id) \/ ~Has(reply.body.username)
    THEN Failure("HTTPException", HTTP_400, "str(e)", 1)
    ELSE Success(UserInfo(Val(reply.body.id), Val(reply.body.username)), 1)

\* ------------------------------------------------- the in-memory token store
\* self._tokens is a Python dict, modelled as the set of its (key, value) items.
\* key = f"{user_id}:{self.provider}"
Key(user_id, p) == user_id \o ":" \o p
\* key in d
DictHas(d, k) == \E item \in d : item[1] = k
\* d.get(k): the value under k, or None
DictGet(d, k) == IF DictHas(d, k) THEN (CHOOSE item \in d : item[1] = k)[2] ELSE NoToken
\* mutant of DictSet: the new item is added beside the old one
DictSet_append(d, k, v) == d \cup {<<k, v>>}

\* d[k] = v: the item under k, if any, is replaced
DictSet(d, k, v) == {item \in d : item[1] # k} \cup {<<k, v>>}
\* del d[k]
DictDel_clear(d, k) == {}
DictDel(d, k) == {item \in d : item[1] # k}

\* mutant of store_token: the refresh token is not copied into the record
store_token_drops_refresh_token(toks, p, user_id, token, t) ==
    DictSet(toks, Key(user_id, p),
            OAuthToken(user_id, p, token.access_token, token.token_type,
                       token.expires_in, None, token.scope,
                       IntTime(t) + token.expires_in))

\* mutant of store_token: the time is rounded up instead of truncated
store_token_rounds_up(toks, p, user_id, token, t) ==
    DictSet(toks, Key(user_id, p),
            OAuthToken(user_id, p, token.access_token, token.token_type,
                       token.expires_in, token.refresh_token, token.scope,
                       IntTime(t + TicksPerSec - 1) + token.expires_in))

\* BaseOAuthService.store_token, called at clock value t: the store afterwards
store_token(toks, p, user_id, token, t) ==
    LET expires_at == IntTime(t) + token.expires_in
        oauth_token == OAuthToken(user_id, p, token.access_token, token.token_type,
                                  token.expires_in, token.refresh_token, token.scope,
                                  expires_at)
        key == Key(user_id, p)
    IN  DictSet(toks, key, oauth_token)

\* mutant of delete_token: the whole store is emptied
delete_token_clears_store(toks, p, user_id) == {}

\* BaseOAuthService.delete_token: the store afterwards
delete_token_keeps(toks, p, user_id) == toks
delete_token(toks, p, user_id) ==
    LET key == Key(user_id, p)
    IN  IF DictHas(toks, key) THEN DictDel(toks, key) ELSE toks

\* mutant of NearExpiry: only a record already past its expiry counts
NearExpiry_only_expired(token, t) == token.expires_at * TicksPerSec - t < 0

\* mutant of NearExpiry: the 300-second buffer of time_utils.is_token_expired
NearExpiry_buffer_300(token, t) == token.expires_at * TicksPerSec - t < 300 * TicksPerSec

\* token.expires_at - now < 60, with now = time.time() at clock value t
NearExpiry(token, t) ==
    token.expires_at * TicksPerSec - t < REFRESH_WINDOW * TicksPerSec

\* mutant of except_Exception: "except HTTPException"
except_HTTPException(exc) == exc = "HTTPException"

\* "except Exception" in get_token: the exception classes the handler catches
\* (HTTPException, requests' RequestException, KeyError and pydantic's
\* ValidationError all derive from Exception)
except_Exception(exc) == exc \in {"HTTPException", "RequestException", "KeyError", "ValidationError"}

\* What one call of get_token did: the store afterwards, the value returned,
\* whether an exception reached the caller, the calls it made in order, the
\* outcome of the adapter's refresh (when called) and the
\* clock at its return.
GetResult(toks, ret, raised, calls, refreshed, t) ==
    [tokens |-> toks, ret |-> ret, raised |-> raised, calls |-> calls,
     refreshed |-> refreshed, clock |-> t]

NotRefreshed == Raised("", 0, 0)

\* mutant of get_token: after a successful refresh the record read before the
\* refresh is returned instead of the one just stored
get_token_returns_stale(toks, p, client_id, user_id, t, reply, d) ==
    LET key == Key(user_id, p)
        token == DictGet(toks, key)
    IN  IF token # NoToken /\ TruthyInt(token.expires_at) /\ NearExpiry(token, t)
        THEN IF TruthyStr(token.refresh_token)
             THEN LET new_token == refresh_token(p, client_id, token.refresh_token, reply, t)
                  IN  IF new_token.ok
                      THEN GetResult(store_token(toks, p, user_id, new_token.value, t + d),
                                     token, FALSE,
                                     <<"get", "refresh_token", "store_token", "get">>,
                                     new_token, t + d)
                      ELSE GetResult(delete_token(toks, p, user_id), NoToken, FALSE,
                                     <<"get", "refresh_token", "delete_token">>,
                                     new_token, t + d)
             ELSE GetResult(delete_token(toks, p, user_id), NoToken, FALSE,
                            <<"get", "delete_token">>, NotRefreshed, t)
        ELSE GetResult(toks, token, FALSE, <<"get">>, NotRefreshed, t)

\* BaseOAuthService.get_token, called at clock value t on a service of class p;
\* reply is what the provider answers if the adapter sends a refresh request,
\* and d the time the adapter's refresh call takes.
get_token(toks, p, client_id, user_id, t, reply, d) ==
    LET key == Key(user_id, p)
        token == DictGet(toks, key)
    IN  IF token # NoToken /\ TruthyInt(token.expires_at) /\ NearExpiry(token, t)
        THEN IF TruthyStr(token.refresh_token)
             THEN LET new_token == refresh_token(p, client_id, token.refresh_token, reply, t)
                  IN  IF new_token.ok
                      THEN LET stored == store_token(toks, p, user_id, new_token.value, t + d)
                           IN  GetResult(stored, DictGet(stored, key), FALSE,
                                         <<"get", "refresh_token", "store_token", "get">>,
                                         new_token, t + d)
                      ELSE IF except_Exception(new_token.exc)
                      THEN GetResult(delete_token(toks, p, user_id), NoToken, FALSE,
                                     <<"get", "refresh_token", "delete_token">>,
                                     new_token, t + d)
                      ELSE GetResult(toks, NoToken, TRUE,
                                     <<"get", "refresh_token">>, new_token, t + d)
             ELSE GetResult(delete_token(toks, p, user_id), NoToken, FALSE,
                            <<"get", "delete_token">>, NotRefreshed, t)
        ELSE GetResult(toks, token, FALSE, <<"get">>, NotRefreshed, t)

\* ------------------------------------------------------- provider registry
\* class OAuthProvider / get_supported_providers
get_supported_providers == {"sketchfab", "google"}
\* mutant of is_provider_supported: every name is taken as registered
is_provider_supported_any(p) == TRUE

\* is_provider_supported
is_provider_supported(p) == p \in get_supported_providers
\* the provider names requests carry: the registered ones and "twitter", whose
\* adapter class exists but is not registered
ProviderNames == AdapterClasses

\* ------------------------------------------------------------------ state
VARIABLES
    config,      \* Settings: the client id configured for each provider
    provider,    \* class of the current service instance (self.provider)
    tokens,      \* self._tokens of the current service instance
    clock,       \* time.time(), in ticks
    last,        \* the last operation: its arguments, result and calls
    code_verifiers,  \* self._code_verifiers of the Twitter service instance
    threads,     \* the position of each concurrent call in the method it runs
    issued,      \* how many code verifiers the Twitter instance has generated
    resolved     \* the (state, verifier) pairs exchanges took from self._code_verifiers, in order

vars == <<config, provider, tokens, clock, last, code_verifiers, threads, issued, resolved>>
\* the state only concurrent calls and the Twitter adapter use
pkce_vars == <<code_verifiers, threads, issued, resolved>>

\* the callers that may run a method of one service instance at the same time
Threads == {"t1", "t2"}
\* a caller that is not inside a call
Idle == [pc |-> "idle"]

\* deployments: no credentials set (the Settings defaults), or set for every provider
Configs == {[p \in AdapterClasses |-> c] : c \in {"", "client-id"}}

\* get_oauth_config(provider)["client_id"]
client_id_of(p) == config[p]

Op(op, p, user_id, arg, now, res, status) ==
    [op |-> op, provider |-> p, user_id |-> user_id, arg |-> arg, now |-> now,
     ret |-> res.ret, raised |-> res.raised, calls |-> res.calls,
     refreshed |-> res.refreshed, status |-> status]

NoResult == GetResult({}, NoToken, FALSE, <<>>, NotRefreshed, 0)

Init ==
    /\ config \in Configs
    /\ provider \in AdapterClasses
    /\ tokens = {}
    /\ clock = StartClock
    /\ last = Op("init", provider, "", NoResponse, StartClock, NoResult, 0)
    /\ code_verifiers = {}
    /\ threads = [th \in Threads |-> Idle]
    /\ issued = 0
    /\ resolved = <<>>

\* time passes
Tick ==
    /\ clock < EndClock
    /\ clock' = clock + 1
    /\ last' = Op("tick", provider, "", NoResponse, clock, NoResult, 0)
    /\ UNCHANGED <<config, provider, tokens>>
    /\ UNCHANGED pkce_vars

\* a caller runs service.store_token(user_id, token) on the current instance
StoreToken(user_id, token) ==
    /\ tokens' = store_token(tokens, provider, user_id, token, clock)
    /\ last' = Op("store_token", provider, user_id, token, clock,
                  [NoResult EXCEPT !.calls = <<"store_token">>], 0)
    /\ UNCHANGED <<config, provider, clock>>
    /\ UNCHANGED pkce_vars

\* a caller runs service.get_token(user_id) on the current instance
GetToken(user_id, reply, d) ==
    LET r == get_token(tokens, provider, client_id_of(provider), user_id, clock, reply, d)
    IN  /\ clock + d <= EndClock
        /\ tokens' = r.tokens
        /\ clock' = r.clock
        /\ last' = Op("get_token", provider, user_id, NoResponse, clock, r, 0)
        /\ UNCHANGED <<config, provider>>
        /\ UNCHANGED pkce_vars

\* a caller runs service.delete_token(user_id) on the current instance
DeleteToken(user_id) ==
    /\ tokens' = delete_token(tokens, provider, user_id)
    /\ last' = Op("delete_token", provider, user_id, NoResponse, clock,
                  [NoResult EXCEPT !.calls = <<"delete_token">>], 0)
    /\ UNCHANGED <<config, provider, clock>>
    /\ UNCHANGED pkce_vars

\* BaseOAuthService.__init__: the store of a newly created service instance
NewTokens == {}

\* create_oauth_service(p): TRUE when it returns an instance (a new one at every
\* call), FALSE when it raises HTTPException(400)
create_oauth_service(p) == is_provider_supported(p)

\* GET /me/{provider}?user_id=...: the handler creates its own service instance,
\* which becomes the current one, and looks the token up in it
Me(p, user_id, reply, d) ==
    IF ~create_oauth_service(p)
    THEN /\ last' = Op("me", p, user_id, NoResponse, clock, NoResult, HTTP_400)
         /\ UNCHANGED <<config, provider, tokens, clock>>
         /\ UNCHANGED pkce_vars
    ELSE LET r == get_token(NewTokens, p, client_id_of(p), user_id, clock, reply, d)
         IN  /\ clock + d <= EndClock
             /\ provider' = p
             /\ tokens' = r.tokens
             /\ clock' = r.clock
             /\ last' = Op("me", p, user_id, NoResponse, clock, r,
                           IF r.ret = NoToken THEN HTTP_404 ELSE HTTP_200)
             /\ UNCHANGED config
             /\ UNCHANGED pkce_vars

\* POST /refresh/{provider} with body {user_id, refresh_token}: the handler
\* creates its own service instance; reply2 is the provider's answer to the
\* route's own refresh request
RefreshRoute(p, user_id, rt, reply, d, reply2) ==
    IF ~create_oauth_service(p)
    THEN /\ last' = Op("refresh", p, user_id, NoResponse, clock, NoResult, HTTP_400)
         /\ UNCHANGED <<config, provider, tokens, clock>>
         /\ UNCHANGED pkce_vars
    ELSE LET r == get_token(NewTokens, p, client_id_of(p), user_id, clock, reply, d)
             token == refresh_token(p, client_id_of(p), rt, reply2, r.clock)
         IN  /\ clock + d <= EndClock
             /\ provider' = p
             /\ clock' = r.clock
             /\ UNCHANGED config
             /\ UNCHANGED pkce_vars
             /\ IF r.ret = NoToken
                THEN /\ tokens' = r.tokens
                     /\ last' = Op("refresh", p, user_id, NoResponse, clock, r, HTTP_404)
                ELSE IF ~token.ok
                THEN /\ tokens' = r.tokens
                     /\ last' = Op("refresh", p, user_id, NoResponse, clock,
                                   [r EXCEPT !.raised = TRUE,
                                             !.calls = @ \o <<"refresh_token">>],
                                   IF token.exc = "HTTPException" THEN token.status
                                   ELSE HTTP_500)
                ELSE /\ tokens' = store_token(r.tokens, p, user_id, token.value, r.clock)
                     /\ last' = Op("refresh", p, user_id, token.value, clock,
                                   [r EXCEPT !.calls = @ \o <<"refresh_token", "store_token">>],
                                   HTTP_200)

\* The provider's reply and the duration of the refresh call are inputs of
\* get_token only when it asks for them: the replies to choose from when the
\* call at hand sends a request, the durations when it calls the adapter.
Probe(toks, p, u) ==
    IF p \in AdapterClasses
    THEN get_token(toks, p, client_id_of(p), u, clock, TransportFailure, 0)
    ELSE NoResult
RepliesTo(toks, p, u) ==
    IF Probe(toks, p, u).refreshed.sent > 0 THEN TokenReplies ELSE {TransportFailure}
DurationsOf(toks, p, u) ==
    IF Len(Probe(toks, p, u).calls) > 1 THEN 0..MaxElapsed ELSE {0}

Next ==
    \/ Tick
    \/ \E u \in Users : \E token \in Inputs(u) : StoreToken(u, token)
    \/ \E u \in Users : \E reply \in RepliesTo(tokens, provider, u),
                           d \in DurationsOf(tokens, provider, u) : GetToken(u, reply, d)
    \/ \E u \in Users : DeleteToken(u)
    \/ \E p \in ProviderNames, u \in Users :
          \E reply \in RepliesTo(NewTokens, p, u), d \in DurationsOf(NewTokens, p, u) :
              Me(p, u, reply, d)
    \/ \E p \in ProviderNames, u \in Users, rt \in RefreshTokens :
          \E reply \in RepliesTo(NewTokens, p, u), d \in DurationsOf(NewTokens, p, u) :
              RefreshRoute(p, u, rt, reply, d, TransportFailure)

Spec == Init /\ [][Next]_vars

\* ------------------------------- one Twitter service instance, several callers
\* the provider's replies to the token request of an exchange
ExchangeReplies ==
    {TransportFailure,
     [kind |-> "response", status |-> HTTP_401, body |-> ErrorBody],
     [kind |-> "response", status |-> HTTP_200,
      body |-> TokenBody(<<"a1">>, Absent, <<"r1">>)],
     [kind |-> "response", status |-> HTTP_200,
      body |-> TokenBody(Absent, <<REFRESH_WINDOW + 1>>, Absent)]}

PkceOp(op, th, url) == [op |-> op, thread |-> th, url |-> url]
NoUrl == [client_id |-> "", state |-> None, code_challenge |-> "",
          code_challenge_method |-> ""]

InitPKCE ==
    /\ config \in Configs
    /\ provider = "twitter"
    /\ tokens = {}
    /\ clock = StartClock
    /\ last = PkceOp("init", "", NoUrl)
    /\ code_verifiers = {}
    /\ threads = [th \in Threads |-> Idle]
    /\ issued = 0
    /\ resolved = <<>>

\* a caller runs service.get_authorization_url(); state is the value
\* OAuth2Session draws for this URL
GetAuthorizationUrl(th, state) ==
    LET r == twitter_get_authorization_url(code_verifiers, client_id_of("twitter"),
                                           state, generate_code_verifier(issued + 1))
    IN  /\ issued < MaxIssued
        /\ threads[th].pc \in {"idle", "done"}
        /\ issued' = issued + 1
        /\ code_verifiers' = r.code_verifiers
        /\ threads' = [threads EXCEPT ![th] = Idle]
        /\ last' = PkceOp("get_authorization_url", th, r.url)
        /\ UNCHANGED <<config, provider, tokens, clock, resolved>>

\* a caller enters service.exchange_code_for_token(code, code_verifier, state)
ExchangeBegin(th, code_verifier, state) ==
    /\ threads[th].pc \in {"idle", "done"}
    /\ threads' = [threads EXCEPT ![th] =
                      exchange_begin(code_verifiers, client_id_of("twitter"),
                                     code_verifier, state, clock)]
    /\ last' = PkceOp("exchange_begin", th, NoUrl)
    /\ UNCHANGED <<config, provider, tokens, clock, code_verifiers, issued, resolved>>

\* the caller runs line 97
ExchangePop(th) ==
    LET r == exchange_pop(code_verifiers, threads[th])
    IN  /\ threads[th].pc = "pop"
        /\ threads' = [threads EXCEPT ![th] = r.call]
        /\ code_verifiers' = r.code_verifiers
        /\ resolved' = resolved \o r.popped
        /\ last' = PkceOp("exchange_pop", th, NoUrl)
        /\ UNCHANGED <<config, provider, tokens, clock, issued>>

\* the caller sends the token request and returns
ExchangeFetch(th, reply) ==
    /\ threads[th].pc = "fetch"
    /\ threads' = [threads EXCEPT ![th] = exchange_fetch(threads[th], reply)]
    /\ last' = PkceOp("exchange_fetch", th, NoUrl)
    /\ UNCHANGED <<config, provider, tokens, clock, code_verifiers, issued, resolved>>

NextPKCE ==
    \/ \E th \in Threads, state \in States : GetAuthorizationUrl(th, state)
    \/ \E th \in Threads, code_verifier \in CallerVerifiers, state \in OptStates :
          ExchangeBegin(th, code_verifier, state)
    \/ \E th \in Threads : ExchangePop(th)
    \/ \E th \in Threads, reply \in ExchangeReplies : ExchangeFetch(th, reply)

SpecPKCE == InitPKCE /\ [][NextPKCE]_vars

\* ------------------------------------------------------------ the HTTP routes
\* the code query parameter of a callback (required: code: str = Query(...))
Codes == {"c1", "c2"}
\* the error query parameter of a callback
CallbackErrors == {None, "access_denied"}
\* the query of a callback request
Query(code, state, code_verifier, error) ==
    [code |-> code, state |-> state, code_verifier |-> code_verifier, error |-> error]
NoQuery == Query("", None, None, None)

\* what a route answered: the adapter and store methods the handler called, the
\* HTTP status, the detail of an error response, the token of a success
\* response, the URL of a redirect, and the code verifier the exchange took
\* from the instance's _code_verifiers (None when it took none)
RouteOp(op, p, query, calls, status, detail, body, url, verifier) ==
    [op |-> op, provider |-> p, query |-> query, calls |-> calls, status |-> status,
     detail |-> detail, body |-> body, url |-> url, verifier |-> verifier]

\* detail=f"Unsupported provider: {provider}"
UnsupportedProvider(p) == "Unsupported provider: " \o p

\* SketchfabOAuthService.get_authorization_url
sketchfab_get_authorization_url(client_id) == [NoUrl EXCEPT !.client_id = client_id]
\* GoogleOAuthService.get_authorization_url
google_get_authorization_url(client_id) == [NoUrl EXCEPT !.client_id = client_id]

\* service.get_authorization_url() on a newly created instance: the URL and the
\* instance's _code_verifiers afterwards (only the Twitter adapter has any)
get_authorization_url(p, client_id, state, code_verifier) ==
    CASE p = "sketchfab" ->
            [url |-> sketchfab_get_authorization_url(client_id), code_verifiers |-> {}]
      [] p = "google" ->
            [url |-> google_get_authorization_url(client_id), code_verifiers |-> {}]
      [] p = "twitter" ->
            twitter_get_authorization_url({}, client_id, state, code_verifier)

\* how many positional arguments, after self, exchange_code_for_token of each
\* adapter class accepts
exchange_positional_params(p) == IF p = "sketchfab" THEN 1 ELSE 3

\* service.exchange_code_for_token(code, code_verifier, state) on a newly
\* created instance, as the callback calls it: Python raises TypeError when the
\* method accepts fewer positional arguments than the call passes
exchange_code_for_token(p, client_id, code_verifier, state, reply, t) ==
    LET twitter == twitter_exchange_code_for_token({}, client_id, code_verifier, state,
                                                   reply, t)
    IN  IF exchange_positional_params(p) < CALLBACK_EXCHANGE_ARGS
        THEN [result |-> Failure("TypeError", 0, "", 0), code_verifiers |-> {},
              taken |-> None]
        ELSE CASE p = "sketchfab" ->
                    [result |-> sketchfab_exchange_code_for_token(client_id, reply, t),
                     code_verifiers |-> {}, taken |-> None]
               [] p = "google" ->
                    [result |-> google_exchange_code_for_token(client_id, reply, t),
                     code_verifiers |-> {}, taken |-> None]
               [] p = "twitter" ->
                    [result |-> twitter.result, code_verifiers |-> twitter.code_verifiers,
                     taken |-> IF twitter.from_store THEN twitter.code_verifier ELSE None]

\* service.get_user_info(access_token)
get_user_info(p, client_id, reply) ==
    CASE p = "sketchfab" -> sketchfab_get_user_info(client_id, reply)
      [] p = "google" -> google_get_user_info(client_id, reply)
      [] p = "twitter" -> twitter_get_user_info(client_id, reply)

\* GET /authorize/{provider}
Authorize(p, state) ==
    IF p \notin get_supported_providers
    THEN /\ last' = RouteOp("authorize", p, NoQuery, <<>>, HTTP_400,
                            UnsupportedProvider(p), NoResponse, NoUrl, None)
         /\ UNCHANGED <<config, provider, tokens, clock>>
         /\ UNCHANGED pkce_vars
    ELSE LET r == get_authorization_url(p, client_id_of(p), state,
                                        generate_code_verifier(1))
         IN  /\ create_oauth_service(p)
             /\ provider' = p
             /\ tokens' = NewTokens
             /\ code_verifiers' = r.code_verifiers
             /\ last' = RouteOp("authorize", p, NoQuery, <<"get_authorization_url">>,
                                HTTP_307, "", NoResponse, r.url, None)
             /\ UNCHANGED <<config, clock, threads, issued, resolved>>

\* mutant of callback_error_status: an HTTPException of the adapter keeps its
\* status and any other exception becomes a 500
callback_error_status_passthrough(outcome) ==
    IF outcome.exc = "HTTPException" THEN outcome.status ELSE HTTP_500

\* lines 171-176: except Exception as e: raise HTTPException(400, detail=str(e))
callback_error_status(outcome) == HTTP_400

\* mutant of skips_user_info: no provider is exempt from the user-info call
skips_user_info_never(p) == FALSE

\* line 113: if provider == "google", the callback returns the token fields
\* without calling get_user_info
skips_user_info(p) == p = "google"

\* GET /callback/{provider}?code=...&state=...&code_verifier=...&error=...:
\* reply is the token endpoint's answer, ureply the user-info endpoint's
Callback(p, code, state, code_verifier, error, reply, ureply) ==
    LET query == Query(code, state, code_verifier, error)
        exchange == exchange_code_for_token(p, client_id_of(p), code_verifier, state,
                                            reply, clock)
        token == exchange.result
        user_info == get_user_info(p, client_id_of(p), ureply)
    IN  IF TruthyStr(error)
        THEN /\ last' = RouteOp("callback", p, query, <<>>, HTTP_400, error,
                                NoResponse, NoUrl, None)
             /\ UNCHANGED <<config, provider, tokens, clock>>
             /\ UNCHANGED pkce_vars
        ELSE IF p \notin get_supported_providers
        THEN /\ last' = RouteOp("callback", p, query, <<>>, HTTP_400,
                                UnsupportedProvider(p), NoResponse, NoUrl, None)
             /\ UNCHANGED <<config, provider, tokens, clock>>
             /\ UNCHANGED pkce_vars
        ELSE /\ create_oauth_service(p)
             /\ provider' = p
             /\ code_verifiers' = exchange.code_verifiers
             /\ UNCHANGED <<config, clock, threads, issued, resolved>>
             /\ IF ~token.ok
                THEN /\ tokens' = NewTokens
                     /\ last' = RouteOp("callback", p, query,
                                        <<"exchange_code_for_token">>,
                                        callback_error_status(token),
                                        "str(e)", NoResponse, NoUrl, exchange.taken)
                ELSE IF skips_user_info(p)
                THEN /\ tokens' = NewTokens
                     /\ last' = RouteOp("callback", p, query,
                                        <<"exchange_code_for_token">>, HTTP_200,
                                        "", token.value, NoUrl, exchange.taken)
                ELSE IF ~user_info.ok
                THEN /\ tokens' = NewTokens
                     /\ last' = RouteOp("callback", p, query,
                                        <<"exchange_code_for_token", "get_user_info">>,
                                        callback_error_status(user_info), "str(e)",
                                        NoResponse, NoUrl, exchange.taken)
                ELSE /\ tokens' = store_token(NewTokens, p, user_info.value.id,
                                              token.value, clock)
                     /\ last' = RouteOp("callback", p, query,
                                        <<"exchange_code_for_token", "get_user_info",
                                          "store_token">>,
                                        HTTP_200, "", token.value, NoUrl, exchange.taken)

\* the replies a callback consumes: the token endpoint is asked only by an
\* adapter with a client id whose exchange the callback can call, the user-info
\* endpoint only after an exchange for a provider other than google
SendsExchange(p) ==
    /\ p \in get_supported_providers
    /\ exchange_positional_params(p) >= CALLBACK_EXCHANGE_ARGS
    /\ ~IsPlaceholder(p, client_id_of(p))
ExchangeRepliesTo(p) ==
    IF SendsExchange(p) THEN ProviderReplies ELSE {Reply("transport", 0, ErrorBody, "")}
UserRepliesTo(p) ==
    IF SendsExchange(p) /\ ~skips_user_info(p) THEN UserReplies
    ELSE {Reply("transport", 0, NoUserBody, "")}

NextRoutes ==
    \/ Tick
    \/ \E p \in ProviderNames, state \in States : Authorize(p, state)
    \/ \E p \in ProviderNames, code \in Codes, state \in OptStates :
          \E code_verifier \in CallerVerifiers, error \in CallbackErrors :
              \E reply \in ExchangeRepliesTo(p), ureply \in UserRepliesTo(p) :
                  Callback(p, code, state, code_verifier, error, reply, ureply)
    \/ \E p \in ProviderNames, u \in Users :
          \E reply \in RepliesTo(NewTokens, p, u), d \in DurationsOf(NewTokens, p, u) :
              Me(p, u, reply, d)
    \/ \E p \in ProviderNames, u \in Users, rt \in RefreshTokens :
          \E reply \in RepliesTo(NewTokens, p, u), d \in DurationsOf(NewTokens, p, u) :
              RefreshRoute(p, u, rt, reply, d, TransportFailure)

SpecRoutes == Init /\ [][NextRoutes]_vars

\* --------------------------------------- the operations of one adapter instance
\* the detail of the HTTPException refresh_token raises for a response whose
\* status is not 200
refresh_error_detail(p, reply) ==
    CASE p = "sketchfab" -> handle_request_error(reply)[2]
      [] p = "google" -> json_or_unknown(reply)
      [] p = "twitter" -> "str(e)"

\* the outcome of self.refresh_token(...) with the detail of its HTTPException
refresh_outcome(p, client_id, rt, reply, t) ==
    LET r == refresh_token(p, client_id, rt, reply, t)
    IN  IF r.ok THEN Success(r.value, r.sent)
        ELSE Failure(r.exc, r.status,
                     IF r.exc = "HTTPException" /\ reply.kind = "response"
                        /\ reply.status # HTTP_200
                     THEN refresh_error_detail(p, reply) ELSE "",
                     r.sent)

\* one call of an adapter method: its refresh_token argument (None for the
\* other methods), the provider's reply and the outcome
AdapterOp(op, p, arg, reply, outcome) ==
    [op |-> op, provider |-> p, arg |-> arg, reply |-> reply, outcome |-> outcome]

InitAdapters ==
    /\ config \in Configs
    /\ provider \in AdapterClasses
    /\ tokens = {}
    /\ clock = StartClock
    /\ last = AdapterOp("init", provider, None, Reply("transport", 0, ErrorBody, ""), NoOutcome)
    /\ code_verifiers = {}
    /\ threads = [th \in Threads |-> Idle]
    /\ issued = 0
    /\ resolved = <<>>

\* time passes
AdapterTick ==
    /\ clock < EndClock
    /\ clock' = clock + 1
    /\ last' = AdapterOp("tick", provider, None, Reply("transport", 0, ErrorBody, ""), NoOutcome)
    /\ UNCHANGED <<config, provider, tokens>>
    /\ UNCHANGED pkce_vars

\* service.exchange_code_for_token on the current instance with the arguments
\* the method takes (the Twitter adapter with a code_verifier of the caller's)
ExchangeOutcome(reply) ==
    CASE provider = "sketchfab" ->
            sketchfab_exchange_code_for_token(client_id_of(provider), reply, clock)
      [] provider = "google" ->
            google_exchange_code_for_token(client_id_of(provider), reply, clock)
      [] provider = "twitter" ->
            twitter_exchange_code_for_token(code_verifiers, client_id_of(provider),
                "caller_verifier", None, reply, clock).result

\* a caller runs service.exchange_code_for_token
AdapterExchange(reply) ==
    /\ last' = AdapterOp("exchange_code_for_token", provider, None, reply, ExchangeOutcome(reply))
    /\ UNCHANGED <<config, provider, tokens, clock>>
    /\ UNCHANGED pkce_vars

\* a caller runs service.refresh_token(refresh_token)
AdapterRefresh(rt, reply) ==
    /\ last' = AdapterOp("refresh_token", provider, rt, reply,
                         refresh_outcome(provider, client_id_of(provider), rt, reply, clock))
    /\ UNCHANGED <<config, provider, tokens, clock>>
    /\ UNCHANGED pkce_vars

\* a caller runs service.get_user_info(access_token)
AdapterUserInfo(reply) ==
    /\ last' = AdapterOp("get_user_info", provider, None, reply,
                         get_user_info(provider, client_id_of(provider), reply))
    /\ UNCHANGED <<config, provider, tokens, clock>>
    /\ UNCHANGED pkce_vars

\* the token responses a caller stores on the instance: inside and outside the
\* refresh window, with and without a refresh token
AdapterTokens ==
    {OAuthTokenResponse("a1", "Bearer", e, r, "read write") :
        e \in {REFRESH_WINDOW - 1, REFRESH_WINDOW + 1}, r \in {None, "r1"}}
\* the replies get_token consumes: the provider is asked only when the call at
\* hand sends a refresh request
AdapterRepliesTo(u) ==
    IF Probe(tokens, provider, u).refreshed.sent > 0 THEN RefreshReplies
    ELSE {TransportFailure}

NextAdapters ==
    \/ AdapterTick
    \/ \E token \in AdapterTokens : StoreToken("u1", token)
    \/ \E reply \in AdapterRepliesTo("u1"), d \in DurationsOf(tokens, provider, "u1") :
          GetToken("u1", reply, d)
    \/ \E reply \in ProviderReplies : AdapterExchange(reply)
    \/ \E rt \in RefreshTokens, reply \in ProviderReplies : AdapterRefresh(rt, reply)
    \/ \E reply \in UserReplies : AdapterUserInfo(reply)

SpecAdapters == InitAdapters /\ [][NextAdapters]_vars

\* ------------------------------------------- the PKCE verifier and challenge
\* Text is a sequence of one-character strings, bytes a sequence of 0..255.
\* the alphabet of base64.urlsafe_b64encode, by sextet value plus one
UrlsafeAlphabet ==
    <<
      "A", "B", "C", "D", "E", "F", "G", "H", "I", "J", "K", "L", "M", "N", "O", "P",
      "Q", "R", "S", "T", "U", "V", "W", "X", "Y", "Z", "a", "b", "c", "d", "e", "f",
      "g", "h", "i", "j", "k", "l", "m", "n", "o", "p", "q", "r", "s", "t", "u", "v",
      "w", "x", "y", "z", "0", "1", "2", "3", "4", "5", "6", "7", "8", "9", "-", "_">>
\* the character base64 writes for a sextet
SextetChar(sextet) == UrlsafeAlphabet[sextet + 1]
\* [a-zA-Z0-9]: the letters and digits are the first 62 characters of the alphabet
IsAlnum(c) == \E i \in 1..62 : UrlsafeAlphabet[i] = c

\* base64.urlsafe_b64encode(bytes).decode('utf-8'): each group of three bytes
\* gives four characters; a last group of one or two bytes is filled with zero
\* bits and closed with "=" padding
urlsafe_b64encode(bytes) ==
    LET n == Len(bytes)
        byte(i) == IF i <= n THEN bytes[i] ELSE 0
        char(k) ==
            LET g == (k - 1) \div 4
                b1 == byte((3 * g) + 1)
                b2 == byte((3 * g) + 2)
                b3 == byte((3 * g) + 3)
                pos == (k - 1) % 4
            IN  CASE pos = 0 -> SextetChar(b1 \div 4)
                  [] pos = 1 -> SextetChar(((b1 % 4) * 16) + (b2 \div 16))
                  [] pos = 2 -> IF (3 * g) + 2 <= n
                                THEN SextetChar(((b2 % 16) * 4) + (b3 \div 64)) ELSE "="
                  [] pos = 3 -> IF (3 * g) + 3 <= n THEN SextetChar(b3 % 64) ELSE "="
    IN  [k \in 1..(4 * ((n + 2) \div 3)) |-> char(k)]

\* re.sub('[^a-zA-Z0-9]+', '', text)
strip_non_alnum(text) == SelectSeq(text, IsAlnum)

\* TwitterOAuthService.generate_code_verifier for a value of os.urandom(30)
code_verifier_of(random) == strip_non_alnum(urlsafe_b64encode(random))

\* values of os.urandom(30): ten groups of three bytes, each group one that
\* encodes as "abcd", as "AA__", as "-_-_" or as "0101"; the first k groups are
\* of one kind and the others of a second kind
ByteGroups == {<<105, 183, 29>>, <<0, 15, 255>>, <<251, 255, 191>>, <<211, 93, 53>>}
RandomValues ==
    {[i \in 1..VERIFIER_RANDOM_BYTES |->
         IF (i - 1) \div 3 < k THEN a[((i - 1) % 3) + 1] ELSE b[((i - 1) % 3) + 1]] :
        a \in ByteGroups, b \in ByteGroups, k \in 0..(VERIFIER_RANDOM_BYTES \div 3)}

\* code_verifier.encode('utf-8'): the byte of each character (the characters of
\* the base64 alphabet are ASCII)
Ord(c) ==
    LET i == CHOOSE k \in 1..64 : UrlsafeAlphabet[k] = c
    IN  CASE i <= 26 -> 64 + i
          [] i > 26 /\ i <= 52 -> 96 + (i - 26)
          [] i > 52 /\ i <= 62 -> 47 + (i - 52)
          [] i = 63 -> 45
          [] i = 64 -> 95
encode_utf8(text) == [i \in 1..Len(text) |-> Ord(text[i])]

\* hashlib.sha256 (FIPS 180-4). A 32-bit word is a pair <<high, low>> of 16-bit
\* halves.
RECURSIVE Xor16(_, _, _)
\* bitwise exclusive or of the low n bits
Xor16(a, b, n) ==
    IF n = 0 THEN 0 ELSE ((a + b) % 2) + (2 * Xor16(a \div 2, b \div 2, n - 1))
RECURSIVE And16(_, _, _)
\* bitwise and of the low n bits
And16(a, b, n) ==
    IF n = 0 THEN 0 ELSE ((a % 2) * (b % 2)) + (2 * And16(a \div 2, b \div 2, n - 1))
WordXor(x, y) == <<Xor16(x[1], y[1], 16), Xor16(x[2], y[2], 16)>>
WordAnd(x, y) == <<And16(x[1], y[1], 16), And16(x[2], y[2], 16)>>
WordNot(x) == <<65535 - x[1], 65535 - x[2]>>
\* addition modulo 2^32
WordAdd(x, y) ==
    LET low == x[2] + y[2]
        high == x[1] + y[1] + (low \div 65536)
    IN  <<high % 65536, low % 65536>>
\* rotate right by n bits, 0 <= n < 32
Rotr(x, n) ==
    LET y == IF n >= 16 THEN <<x[2], x[1]>> ELSE x
        m == n % 16
    IN  <<(y[1] \div (2 ^ m)) + ((y[2] % (2 ^ m)) * (2 ^ (16 - m))),
          (y[2] \div (2 ^ m)) + ((y[1] % (2 ^ m)) * (2 ^ (16 - m)))>>
\* shift right by n bits, 0 < n < 16
Shr(x, n) ==
    <<x[1] \div (2 ^ n), (x[2] \div (2 ^ n)) + ((x[1] % (2 ^ n)) * (2 ^ (16 - n)))>>
SmallSigma0(x) == WordXor(WordXor(Rotr(x, 7), Rotr(x, 18)), Shr(x, 3))
SmallSigma1(x) == WordXor(WordXor(Rotr(x, 17), Rotr(x, 19)), Shr(x, 10))
BigSigma0(x) == WordXor(WordXor(Rotr(x, 2), Rotr(x, 13)), Rotr(x, 22))
BigSigma1(x) == WordXor(WordXor(Rotr(x, 6), Rotr(x, 11)), Rotr(x, 25))
Ch(x, y, z) == WordXor(WordAnd(x, y), WordAnd(WordNot(x), z))
Maj(x, y, z) == WordXor(WordXor(WordAnd(x, y), WordAnd(x, z)), WordAnd(y, z))
\* the round constants
SHA256_K ==
    <<
      <<17034, 12184>>, <<28983, 17553>>, <<46528, 64463>>, <<59829, 56229>>,
      <<14678, 49755>>, <<23025, 4593>>, <<37439, 33444>>, <<43804, 24277>>,
      <<55303, 43672>>, <<4739, 23297>>, <<9265, 34238>>, <<21772, 32195>>,
      <<29374, 23924>>, <<32990, 45566>>, <<39900, 1703>>, <<49563, 61812>>,
      <<58523, 27073>>, <<61374, 18310>>, <<4033, 40390>>, <<9228, 41420>>,
      <<11753, 11375>>, <<19060, 33962>>, <<23728, 43484>>, <<30457, 35034>>,
      <<38974, 20818>>, <<43057, 50797>>, <<45059, 10184>>, <<48985, 32711>>,
      <<50912, 3059>>, <<54695, 37191>>, <<1738, 25425>>, <<5161, 10599>>,
      <<10167, 2693>>, <<11803, 8504>>, <<19756, 28156>>, <<21304, 3347>>,
      <<25866, 29524>>, <<30314, 2747>>, <<33218, 51502>>, <<37490, 11397>>,
      <<41663, 59553>>, <<43034, 26187>>, <<49739, 35696>>, <<51052, 20899>>,
      <<53650, 59417>>, <<54937, 1572>>, <<62478, 13701>>, <<4202, 41072>>,
      <<6564, 49430>>, <<7735, 27656>>, <<10056, 30540>>, <<13488, 48309>>,
      <<14620, 3251>>, <<20184, 43594>>, <<23452, 51791>>, <<26670, 28659>>,
      <<29839, 33518>>, <<30885, 25455>>, <<33992, 30740>>, <<36039, 520>>,
      <<37054, 65530>>, <<42064, 27883>>, <<48889, 41975>>, <<50801, 30962>>>>
\* the initial hash value
SHA256_H0 ==
    <<
      <<27145, 58983>>, <<47975, 44677>>, <<15470, 62322>>, <<42319, 62778>>,
      <<20750, 21119>>, <<39685, 26764>>, <<8067, 55723>>, <<23520, 52505>>>>
\* the message followed by the byte 128, zero bytes up to 56 modulo 64, and the
\* bit length as eight bytes
sha256_pad(bytes) ==
    LET n == Len(bytes)
        zeros == (119 - n) % 64
        bits == 8 * n
    IN  bytes \o <<128>> \o [i \in 1..zeros |-> 0]
        \o <<0, 0, 0, 0, (bits \div 16777216) % 256, (bits \div 65536) % 256,
             (bits \div 256) % 256, bits % 256>>
\* the sixteen words of the k-th 64-byte block
BlockWords(padded, k) ==
    [i \in 1..16 |->
        LET o == (64 * (k - 1)) + (4 * (i - 1))
        IN  <<(padded[o + 1] * 256) + padded[o + 2], (padded[o + 3] * 256) + padded[o + 4]>>]
RECURSIVE Schedule(_)
\* the message schedule: sixty-four words from the sixteen of the block
Schedule(w) ==
    IF Len(w) = 64 THEN w
    ELSE LET t == Len(w) + 1
         IN  Schedule(Append(w, WordAdd(WordAdd(SmallSigma1(w[t - 2]), w[t - 7]),
                                        WordAdd(SmallSigma0(w[t - 15]), w[t - 16]))))
\* round t on the working variables v = <<a, b, c, d, e, f, g, h>>
Round(v, w, t) ==
    LET t1 == WordAdd(WordAdd(WordAdd(v[8], BigSigma1(v[5])), Ch(v[5], v[6], v[7])),
                      WordAdd(SHA256_K[t], w[t]))
        t2 == WordAdd(BigSigma0(v[1]), Maj(v[1], v[2], v[3]))
    IN  <<WordAdd(t1, t2), v[1], v[2], v[3], WordAdd(v[4], t1), v[5], v[6], v[7]>>
RECURSIVE Rounds(_, _, _)
\* rounds t..64 in order on the eight working variables (reading the length of v
\* evaluates the variables of a round before the next round starts)
Rounds(v, w, t) ==
    IF t > 64 \/ Len(v) # 8 THEN v ELSE Rounds(Round(v, w, t), w, t + 1)
RECURSIVE HashBlocks(_, _, _)
\* the hash value after blocks k.. of the padded message
HashBlocks(h, padded, k) ==
    IF 64 * (k - 1) >= Len(padded) THEN h
    ELSE LET v == Rounds(h, Schedule(BlockWords(padded, k)), 1)
         IN  HashBlocks([i \in 1..8 |-> WordAdd(h[i], v[i])], padded, k + 1)
\* hashlib.sha256(bytes).digest(): thirty-two bytes
sha256(bytes) ==
    LET h == HashBlocks(SHA256_H0, sha256_pad(bytes), 1)
    IN  [i \in 1..32 |->
            LET half == h[((i - 1) \div 4) + 1][(((i - 1) % 4) \div 2) + 1]
            IN  IF i % 2 = 1 THEN half \div 256 ELSE half % 256]

\* mutant of remove_padding: the padding is kept
remove_padding_keeps(text) == text

\* .replace('=', '')
remove_padding(text) == SelectSeq(text, LAMBDA c : c # "=")

\* TwitterOAuthService.generate_code_challenge for a verifier given as text
code_challenge_of(code_verifier) ==
    remove_padding(urlsafe_b64encode(sha256(encode_utf8(code_verifier))))

\* the verifiers a challenge is asked for: the empty one, a short one, and the
\* one of RFC 7636, Appendix B
ChallengeInputs ==
    {<<>>, <<"a", "b", "c">>,
     <<"d", "B", "j", "f", "t", "J", "e", "Z", "4", "C", "V", "P", "-", "m", "B", "9",
       "2", "K", "2", "7", "u", "h", "b", "U", "J", "U", "1", "p", "1", "r", "_", "w",
       "W", "1", "g", "F", "W", "F", "O", "E", "j", "X", "k">>}

\* one call of a PKCE helper: its argument and its result
CodecOp(op, arg, result) == [op |-> op, arg |-> arg, result |-> result]

\* the helpers read no setting: one configuration is enough
InitCodec ==
    /\ config = CHOOSE c \in Configs : TRUE
    /\ provider = "twitter"
    /\ tokens = {}
    /\ clock = StartClock
    /\ last = CodecOp("init", <<>>, <<>>)
    /\ code_verifiers = {}
    /\ threads = [th \in Threads |-> Idle]
    /\ issued = 0
    /\ resolved = <<>>

\* a caller runs service.generate_code_verifier(); random is what os.urandom gives
GenerateCodeVerifier(random) ==
    /\ last' = CodecOp("generate_code_verifier", random, code_verifier_of(random))
    /\ UNCHANGED <<config, provider, tokens, clock>>
    /\ UNCHANGED pkce_vars

\* a caller runs service.generate_code_challenge(code_verifier)
GenerateCodeChallenge(code_verifier) ==
    /\ last' = CodecOp("generate_code_challenge", code_verifier,
                       code_challenge_of(code_verifier))
    /\ UNCHANGED <<config, provider, tokens, clock>>
    /\ UNCHANGED pkce_vars

NextCodec ==
    \/ \E random \in RandomValues : GenerateCodeVerifier(random)
    \/ \E code_verifier \in ChallengeInputs : GenerateCodeChallenge(code_verifier)

SpecCodec == InitCodec /\ [][NextCodec]_vars

\* ------------------------------------------------------------ properties
\* the record the current instance holds for a user before the step at hand
Held(user_id) == DictGet(tokens, Key(user_id, provider))
\* how many times a call of get_token called the adapter's refresh
RefreshCalls(calls) == Cardinality({i \in 1..Len(calls) : calls[i] = "refresh_token"})
\* expires_at is at least / more than 60 seconds after the instant t
AtLeastWindowAfter(token, t) ==
    token.expires_at * TicksPerSec - t >= REFRESH_WINDOW * TicksPerSec
MoreThanWindowAfter(token, t) ==
    token.expires_at * TicksPerSec - t > REFRESH_WINDOW * TicksPerSec
\* the record carries a refresh token: neither None nor the empty string
HasRefreshToken(token) == token.refresh_token \notin {None, ""}

\* C1: whenever get_token returns a record, the record's absolute expiry is at
\* least 60 seconds after the now of the call, also when the record was just
\* produced by an auto-refresh.
C1_ReturnedRecordIsFresh ==
    (last.op = "get_token" /\ last.ret # NoToken)
        => AtLeastWindowAfter(last.ret, last.now)

\* C2 (as claimed): for every stored record whose absolute expiry is within 60
\* seconds of now or already past, one call of get_token calls the adapter's
\* refresh exactly once.
C2_ExactlyOneRefreshCall ==
    [][ (/\ last'.op = "get_token"
         /\ Held(last'.user_id) # NoToken
         /\ ~AtLeastWindowAfter(Held(last'.user_id), last'.now))
        => RefreshCalls(last'.calls) = 1 ]_vars

\* C2 (amended): for every stored record that has a non-empty refresh token and
\* whose absolute expiry is within 60 seconds of now or already past, one call
\* of get_token calls the adapter's refresh exactly once.
C2_OneRefreshCallWhenRefreshable ==
    [][ (/\ last'.op = "get_token"
         /\ Held(last'.user_id) # NoToken
         /\ ~AtLeastWindowAfter(Held(last'.user_id), last'.now)
         /\ HasRefreshToken(Held(last'.user_id)))
        => RefreshCalls(last'.calls) = 1 ]_vars

C2_Witness ==
    /\ last.op = "get_token"
    /\ RefreshCalls(last.calls) = 1
    /\ last.refreshed.sent = 1

C4_RefreshFailureDegradesToNone ==
    (last.op = "get_token" /\ RefreshCalls(last.calls) > 0 /\ ~last.refreshed.ok)
        => /\ ~last.raised
           /\ last.ret = NoToken
           /\ ~DictHas(tokens, Key(last.user_id, provider))

C4_Witness ==
    /\ last.op = "get_token"
    /\ RefreshCalls(last.calls) > 0
    /\ ~last.refreshed.ok
    /\ last.refreshed.exc # "HTTPException"
    /\ tokens # {}

\* C5: when get_token finds a record within the 60-second window that has no
\* refresh token, it deletes the record and returns None without calling the
\* adapter.
C5_NoRefreshTokenDeletes ==
    [][ (/\ last'.op = "get_token"
         /\ Held(last'.user_id) # NoToken
         /\ ~AtLeastWindowAfter(Held(last'.user_id), last'.now)
         /\ ~HasRefreshToken(Held(last'.user_id)))
        => /\ last'.ret = NoToken
           /\ ~DictHas(tokens', Key(last'.user_id, provider))
           /\ last'.calls = <<"get", "delete_token">>
           /\ last'.refreshed.sent = 0 ]_vars

C5_Witness ==
    /\ last.op = "get_token"
    /\ last.calls = <<"get", "delete_token">>
    /\ last.ret = NoToken

\* C6: for every stored record whose absolute expiry is more than 60 seconds
\* after now, get_token returns that record with all fields unchanged, calls no
\* refresh and leaves the store unchanged.
C6_FreshRecordReturnedUnchanged ==
    [][ (/\ last'.op = "get_token"
         /\ Held(last'.user_id) # NoToken
         /\ MoreThanWindowAfter(Held(last'.user_id), last'.now))
        => /\ last'.ret = Held(last'.user_id)
           /\ last'.calls = <<"get">>
           /\ last'.refreshed.sent = 0
           /\ tokens' = tokens ]_vars

C6_Witness ==
    /\ last.op = "get_token"
    /\ last.ret # NoToken
    /\ last.calls = <<"get">>
    /\ MoreThanWindowAfter(last.ret, last.now)
    /\ HasRefreshToken(last.ret)

\* C7 (as claimed): for every normalized token response, store_token followed
\* immediately by get_token for the same key returns a record with the access
\* token and the refresh token that were stored.
C7_StoreThenGet ==
    [][ (/\ last.op = "store_token"
         /\ last'.op = "get_token"
         /\ last'.user_id = last.user_id)
        => /\ last'.ret # NoToken
           /\ last'.ret.access_token = last.arg.access_token
           /\ last'.ret.refresh_token = last.arg.refresh_token ]_vars

\* C7 (amended): store_token followed immediately by get_token for the same key
\* returns a record with the access token and the refresh token that were
\* stored, provided the stored absolute expiry is at least 60 seconds after the
\* time of the get_token call.
C7_StoreThenGetOutsideWindow ==
    [][ (/\ last.op = "store_token"
         /\ last'.op = "get_token"
         /\ last'.user_id = last.user_id
         /\ AtLeastWindowAfter(Held(last.user_id), last'.now))
        => /\ last'.ret # NoToken
           /\ last'.ret.access_token = last.arg.access_token
           /\ last'.ret.refresh_token = last.arg.refresh_token ]_vars

C7_Witness ==
    /\ last.op = "get_token"
    /\ last.calls = <<"get">>
    /\ last.ret # NoToken
    /\ last.ret.expires_at = IntTime(last.now) + last.ret.expires_in
    /\ last.ret.expires_in > REFRESH_WINDOW
    /\ last.ret.refresh_token = None

\* C8: after a token has been stored under user id U for provider P, a later,
\* separate request (/me/{P}?user_id=U, or /refresh/{P} for U) finds that stored
\* token, as long as it has not been deleted and is outside the refresh window.
C8_LaterRequestFindsStoredToken ==
    [][ (/\ last'.op \in {"me", "refresh"}
         /\ last'.provider = provider
         /\ Held(last'.user_id) # NoToken
         /\ AtLeastWindowAfter(Held(last'.user_id), last'.now))
        => /\ last'.status # HTTP_404
           /\ last'.ret = Held(last'.user_id) ]_vars

\* the items the store holds under the key of a user
ItemsOf(user_id) == {item \in tokens : item[1] = Key(user_id, provider)}
\* the response the last operation handed to store_token, if it called it
StoredResponse == IF last.op = "store_token" THEN last.arg ELSE last.refreshed.value
CalledStore ==
    /\ last.op \in {"store_token", "get_token"}
    /\ \E i \in 1..Len(last.calls) : last.calls[i] = "store_token"

\* C9: the store holds at most one record per (user id, provider) key, and
\* store_token for a key replaces its record completely: afterwards every field
\* observable under that key (access token, refresh token, scope, expiry) is
\* the new response's.
C9_OneRecordPerKeyFullyReplaced ==
    /\ \A u \in Users : Cardinality(ItemsOf(u)) <= 1
    /\ \A x \in tokens : \E u \in Users : x[1] = Key(u, provider)
    /\ CalledStore =>
          /\ ItemsOf(last.user_id) # {}
          /\ \A x \in ItemsOf(last.user_id) :
                /\ x[2].access_token = StoredResponse.access_token
                /\ x[2].refresh_token = StoredResponse.refresh_token
                /\ x[2].scope = StoredResponse.scope
                /\ x[2].expires_in = StoredResponse.expires_in
                /\ x[2].expires_at = IntTime(clock) + StoredResponse.expires_in

C9_Witness ==
    /\ last.op = "get_token"
    /\ CalledStore
    /\ Cardinality(tokens) = Cardinality(Users)
    /\ StoredResponse.refresh_token = None

\* C10: store_token writes a record whose absolute expiry is (integer Unix time
\* at the call) + expires_in, and whose user id, provider, access token, token
\* type, expires_in, refresh token and scope are the inputs.
C10_StoredRecordFields ==
    last.op = "store_token"
        => DictGet(tokens, Key(last.user_id, last.provider))
             = [user_id |-> last.user_id,
                provider |-> last.provider,
                access_token |-> last.arg.access_token,
                token_type |-> last.arg.token_type,
                expires_in |-> last.arg.expires_in,
                refresh_token |-> last.arg.refresh_token,
                scope |-> last.arg.scope,
                expires_at |-> (last.now \div TicksPerSec) + last.arg.expires_in]

C10_Witness ==
    /\ last.op = "store_token"
    /\ last.now % TicksPerSec # 0
    /\ last.arg.token_type = "bearer"
    /\ last.arg.refresh_token = ""

\* C11: delete_token is idempotent: deleting a key with no record raises no
\* error and leaves the store unchanged, delete_token applied twice leaves the
\* same store as applied once, and after delete_token(user_id) a get_token for
\* that user returns None.
C11_DeleteIdempotent ==
    [][ /\ last'.op = "delete_token"
           => /\ ~last'.raised
              /\ ~(\E item \in tokens' : item[1] = Key(last'.user_id, provider))
              /\ {item \in tokens' : item[1] # Key(last'.user_id, provider)}
                   = {item \in tokens : item[1] # Key(last'.user_id, provider)}
              /\ Held(last'.user_id) = NoToken => tokens' = tokens
        /\ (last.op = "delete_token" /\ last'.op = "delete_token"
               /\ last'.user_id = last.user_id)
           => tokens' = tokens
        /\ (last.op = "delete_token" /\ last'.op = "get_token"
               /\ last'.user_id = last.user_id)
           => /\ last'.ret = NoToken
              /\ ~last'.raised
              /\ tokens' = tokens ]_vars

C11_Witness ==
    /\ last.op = "delete_token"
    /\ tokens # {}
    /\ ~(\E item \in tokens : item[1] = Key(last.user_id, provider))

\* --------------------------- one service instance, concurrent get_token calls
\* A call of BaseOAuthService.get_token in progress: where it stands, its
\* locals (token, new_token), what it returned or whether it raised, how many
\* times it called the adapter's refresh, and whether it ran while another
\* call was in progress.
GetCall(pc, user_id, token, new_token, ret, raised, refresh_calls, overlapped) ==
    [pc |-> pc, op |-> "get_token", user_id |-> user_id, token |-> token,
     new_token |-> new_token, ret |-> ret, raised |-> raised,
     refresh_calls |-> refresh_calls, overlapped |-> overlapped]

InProgress(call) == call.pc \notin {"idle", "done"}

\* lines 120-128: the read of the record and the tests on it
get_token_read(toks, p, user_id, t, overlapped) ==
    LET token == DictGet(toks, Key(user_id, p))
    IN  IF token # NoToken /\ TruthyInt(token.expires_at) /\ NearExpiry(token, t)
        THEN IF TruthyStr(token.refresh_token)
             THEN GetCall("refresh", user_id, token, NotRefreshed, NoToken, FALSE, 0, overlapped)
             ELSE GetCall("delete", user_id, token, NotRefreshed, NoToken, FALSE, 0, overlapped)
        ELSE GetCall("done", user_id, token, NotRefreshed, token, FALSE, 0, overlapped)

\* line 130: new_token = self.refresh_token(token.refresh_token); an exception
\* leads to the handler of line 135
get_token_refresh(call, p, client_id, reply, t) ==
    LET new_token == refresh_token(p, client_id, call.token.refresh_token, reply, t)
    IN  [call EXCEPT !.pc = IF new_token.ok THEN "store"
                             ELSE IF except_Exception(new_token.exc) THEN "delete"
                             ELSE "done",
                     !.raised = ~new_token.ok /\ ~except_Exception(new_token.exc),
                     !.new_token = new_token,
                     !.refresh_calls = @ + 1]

ConcOp(op, th, initial) == [op |-> op, thread |-> th, initial |-> initial]

InitConc ==
    /\ config \in Configs
    /\ provider \in AdapterClasses
    /\ clock = StartClock
    /\ \E token \in TokenResponses :
          /\ tokens = store_token({}, provider, "u1", token, StartClock)
          /\ last = ConcOp("init", "", DictGet(tokens, Key("u1", provider)))
    /\ code_verifiers = {}
    /\ threads = [th \in Threads |-> Idle]
    /\ issued = 0
    /\ resolved = <<>>

\* a caller enters service.get_token(user_id) and runs lines 120-128
GetTokenRead(th, user_id) ==
    LET overlapped == \E other \in Threads \ {th} : InProgress(threads[other])
        call == get_token_read(tokens, provider, user_id, clock, overlapped)
    IN  /\ threads[th].pc = "idle"
        /\ threads' = [other \in Threads |->
                          IF other = th THEN call
                          ELSE IF InProgress(threads[other]) /\ InProgress(call)
                          THEN [threads[other] EXCEPT !.overlapped = TRUE]
                          ELSE threads[other]]
        /\ last' = ConcOp("get_token_read", th, last.initial)
        /\ UNCHANGED <<config, provider, tokens, clock, code_verifiers, issued, resolved>>

\* the caller runs line 130
GetTokenRefresh(th, reply) ==
    /\ threads[th].pc = "refresh"
    /\ threads' = [threads EXCEPT ![th] =
                      get_token_refresh(threads[th], provider, client_id_of(provider),
                                        reply, clock)]
    /\ last' = ConcOp("get_token_refresh", th, last.initial)
    /\ UNCHANGED <<config, provider, tokens, clock, code_verifiers, issued, resolved>>

\* the caller runs line 132: self.store_token(user_id, new_token)
GetTokenStore(th) ==
    /\ threads[th].pc = "store"
    /\ tokens' = store_token(tokens, provider, threads[th].user_id,
                             threads[th].new_token.value, clock)
    /\ threads' = [threads EXCEPT ![th].pc = "reread"]
    /\ last' = ConcOp("get_token_store", th, last.initial)
    /\ UNCHANGED <<config, provider, clock, code_verifiers, issued, resolved>>

\* the caller runs line 134 and returns the record it reads
GetTokenReread(th) ==
    /\ threads[th].pc = "reread"
    /\ threads' = [threads EXCEPT ![th].pc = "done",
                                  ![th].ret = DictGet(tokens, Key(threads[th].user_id, provider))]
    /\ last' = ConcOp("get_token_reread", th, last.initial)
    /\ UNCHANGED <<config, provider, tokens, clock, code_verifiers, issued, resolved>>

\* the caller runs self.delete_token(user_id), line 137 or 141, up to the
\* test of line 154; without the key it returns None
GetTokenDeleteTest(th) ==
    /\ threads[th].pc = "delete"
    /\ threads' = [threads EXCEPT ![th].pc =
                      IF DictHas(tokens, Key(threads[th].user_id, provider))
                      THEN "del" ELSE "done"]
    /\ last' = ConcOp("get_token_delete_test", th, last.initial)
    /\ UNCHANGED <<config, provider, tokens, clock, code_verifiers, issued, resolved>>

\* the caller runs line 155, del self._tokens[key] (KeyError when another
\* caller removed the key since the test), and returns None
GetTokenDel(th) ==
    /\ threads[th].pc = "del"
    /\ tokens' = DictDel(tokens, Key(threads[th].user_id, provider))
    /\ threads' = [threads EXCEPT ![th].pc = "done",
                                  ![th].raised =
                                      ~DictHas(tokens, Key(threads[th].user_id, provider))]
    /\ last' = ConcOp("get_token_del", th, last.initial)
    /\ UNCHANGED <<config, provider, clock, code_verifiers, issued, resolved>>

NextConc ==
    \/ \E th \in Threads : GetTokenRead(th, "u1")
    \/ \E th \in Threads, reply \in RefreshReplies : GetTokenRefresh(th, reply)
    \/ \E th \in Threads : GetTokenStore(th)
    \/ \E th \in Threads : GetTokenReread(th)
    \/ \E th \in Threads : GetTokenDeleteTest(th)
    \/ \E th \in Threads : GetTokenDel(th)

SpecConc == InitConc /\ [][NextConc]_vars

\* ------------------------------------------------ properties of the PKCE steps
\* the state is registered in self._code_verifiers
Registered(state) == \E item \in code_verifiers : item[1] = state
\* the verifier registered under the state
VerifierOf(state) == (CHOOSE item \in code_verifiers : item[1] = state)[2]
\* an earlier exchange took the verifier of this state
WasResolved(state) == \E i \in 1..Len(resolved) : resolved[i][1] = state
\* the caller has completed an exchange with this outcome
Rejected(call) ==
    /\ call.pc = "done"
    /\ ~call.result.ok
    /\ call.result.exc = "HTTPException"
    /\ call.result.status = HTTP_400
    /\ call.result.detail = "invalid_request"
    /\ call.result.sent = 0

\* C12: the first exchange that resolves a registered state s (no explicit
\* code_verifier) obtains the registered verifier and removes it; an exchange
\* that begins with the same s and no explicit code_verifier after that finds
\* no verifier and is rejected; no verifier taken from the tracker is taken twice.
C12_VerifierResolvedOnce ==
    [][ /\ \A th \in Threads :
              (last'.op = "exchange_pop" /\ last'.thread = th /\ Registered(threads[th].state))
                 => /\ threads'[th].code_verifier = VerifierOf(threads[th].state)
                    /\ threads'[th].from_store
                    /\ ~(\E item \in code_verifiers' : item[1] = threads[th].state)
        /\ \A th \in Threads :
              (/\ last'.op = "exchange_begin" /\ last'.thread = th
               /\ threads'[th].code_verifier \in {None, ""}
               /\ threads'[th].state # None
               /\ WasResolved(threads'[th].state)
               /\ ~Registered(threads'[th].state))
                 => Rejected(threads'[th])
        /\ \A i, j \in 1..Len(resolved') : resolved'[i][2] = resolved'[j][2] => i = j ]_vars

C12_Witness ==
    \E t1, t2 \in Threads :
       /\ t1 # t2
       /\ threads[t1].pc = "done" /\ threads[t1].from_store /\ threads[t1].result.ok
       /\ Rejected(threads[t2])
       /\ threads[t2].state = threads[t1].state
       /\ last.op = "exchange_begin" /\ last.thread = t2
       /\ Len(resolved) = 1

\* C13: two exchanges carrying the same registered state on one Twitter service
\* instance: under every interleaving the membership test and the removal act as
\* one atomic check-and-remove, so a caller that passed the test finds the
\* verifier, and the caller that does not get it observes the invalid_request
\* rejection, never another error.
C13_AtomicCheckAndRemove ==
    \A th \in Threads :
       /\ threads[th].pc = "pop" => Registered(threads[th].state)
       /\ (threads[th].pc = "done" /\ ~threads[th].result.ok /\ threads[th].result.sent = 0)
             => Rejected(threads[th])

\* C15: when get_authorization_url returns, self._code_verifiers holds exactly
\* one entry under the state embedded in the URL, its verifier is the one the
\* URL's code_challenge was derived from, and an entry the state had before is
\* overwritten.
C15_UrlStateRegistered ==
    last.op = "get_authorization_url"
       => /\ Cardinality({item \in code_verifiers : item[1] = last.url.state}) = 1
          /\ \A item \in code_verifiers :
                item[1] = last.url.state
                   => /\ last.url.code_challenge = "b64(sha256(" \o item[2] \o "))"
                      /\ item[2] = "verifier" \o ToString(issued)

C15_Witness ==
    /\ last.op = "get_authorization_url"
    /\ issued = 2
    /\ resolved = <<>>
    /\ Cardinality(code_verifiers) = 1

\* C16: an exchange on the Twitter adapter with state set, no code_verifier and
\* no registration of that state fails with HTTPException(400) invalid_request
\* and sends no request to the provider; it is not a success and not a provider
\* error.
C16_MissingVerifierRejected ==
    \A th \in Threads :
       (/\ last.op = "exchange_begin" /\ last.thread = th
        /\ issued = 0
        /\ threads[th].state # None
        /\ threads[th].code_verifier = None)
          => Rejected(threads[th])

\* C17: when two get_token calls for the same key run at the same time while
\* the stored record is inside the 60-second window and has a refresh token, the
\* adapter's refresh is called exactly once under every interleaving, and both
\* callers receive the refreshed record.
C17_SingleRefreshForConcurrentCalls ==
    \A t1, t2 \in Threads :
       (/\ t1 # t2
        /\ threads[t1].pc # "idle" /\ threads[t2].pc # "idle"
        /\ threads[t1].overlapped /\ threads[t2].overlapped
        /\ last.initial.expires_at * TicksPerSec - clock < REFRESH_WINDOW * TicksPerSec
        /\ last.initial.refresh_token \notin {None, ""})
          => /\ threads[t1].refresh_calls + threads[t2].refresh_calls <= 1
             /\ (threads[t1].pc = "done" /\ threads[t2].pc = "done")
                   => /\ threads[t1].refresh_calls + threads[t2].refresh_calls = 1
                      /\ threads[t1].ret = threads[t2].ret

\* ------------------------------------------------ properties of the routes
RouteNames == {"authorize", "callback", "refresh", "me"}
\* a callback the provider sent back with an error parameter
ErrorCallback(op) == op.op = "callback" /\ op.query.error \notin {None, ""}

\* C18: a request to any route (authorize, callback, refresh, me) that names a
\* provider outside the registry is answered with HTTP 400 before the handler
\* calls any adapter or store method: no call is made, and the service
\* instance, its store and its verifiers stay as they were; authorize and
\* callback (one without an error parameter) say "Unsupported provider". A
\* request that names a registered provider, other than a callback carrying an
\* error parameter, gets an instance of the class registered under that name.
C18_UnknownProviderRejectedFirst ==
    [][last'.op \in RouteNames =>
          IF last'.provider \notin get_supported_providers
          THEN /\ last'.status = HTTP_400
               /\ last'.calls = <<>>
               /\ UNCHANGED <<provider, tokens, code_verifiers>>
               /\ (last'.op = "authorize" \/ (last'.op = "callback" /\ ~ErrorCallback(last')))
                     => last'.detail = "Unsupported provider: " \o last'.provider
          ELSE ErrorCallback(last') \/ provider' = last'.provider]_vars

\* C18 witness: /me was asked for the unregistered "twitter" and answered 400
\* while the instance of an earlier request is of the google class
C18_Witness ==
    /\ last.op = "me"
    /\ last.provider = "twitter"
    /\ last.status = HTTP_400
    /\ provider = "google"

\* C19: with no client id configured for sketchfab, a callback for sketchfab
\* (any code, with or without state and code_verifier, no error parameter)
\* that follows an authorize redirect for sketchfab is answered 200 with the
\* synthetic token of the sketchfab adapter
C19_SketchfabSyntheticToken ==
    [][(/\ config["sketchfab"] = ""
        /\ last.op = "authorize" /\ last.provider = "sketchfab"
        /\ last.status = HTTP_307
        /\ last'.op = "callback" /\ last'.provider = "sketchfab"
        /\ ~ErrorCallback(last'))
          => /\ last'.status = HTTP_200
             /\ last'.body = sketchfab_get_mock_token(clock)]_vars

\* the provider whose adapter uses PKCE
PkceProvider == "twitter"

\* C14: an authorize request for the PKCE provider is answered with a redirect
\* whose URL carries a state under which the new verifier is registered, and a
\* callback that follows it with that state, no code_verifier and no error
\* parameter makes the exchange with the verifier registered at authorize time
C14_VerifierRetrievableAtCallback ==
    [][/\ (last'.op = "authorize" /\ last'.provider = PkceProvider)
            => /\ last'.status = HTTP_307
               /\ \E item \in code_verifiers' :
                     /\ item[1] = last'.url.state
                     /\ last'.url.code_challenge = "b64(sha256(" \o item[2] \o "))"
       /\ (/\ last.op = "authorize" /\ last.provider = PkceProvider
           /\ last.status = HTTP_307
           /\ last'.op = "callback" /\ last'.provider = PkceProvider
           /\ last'.query.state = last.url.state
           /\ last'.query.code_verifier = None
           /\ ~ErrorCallback(last'))
            => /\ Registered(last.url.state)
               /\ last'.verifier = VerifierOf(last.url.state)]_vars

\* --------------------------------------------- properties of the adapters
AdapterOperations == {"exchange_code_for_token", "refresh_token", "get_user_info"}

\* C20: whenever an adapter method (exchange, refresh, user info; sketchfab,
\* google, twitter) has sent its request and the provider answered with a
\* status other than success, the method raises an HTTPException whose status
\* is the provider's status and whose detail is the provider's error body
C20_ProviderErrorSurfaced ==
    (/\ last.op \in AdapterOperations
     /\ last.outcome.sent > 0
     /\ last.reply.kind = "response"
     /\ last.reply.status # HTTP_200)
        => /\ ~last.outcome.ok
           /\ last.outcome.exc = "HTTPException"
           /\ last.outcome.status = last.reply.status
           /\ last.reply.error # "" => last.outcome.detail = last.reply.error

\* C21: no adapter operation and no get_token call retries. A call of
\* exchange_code_for_token, refresh_token or get_user_info has sent at most one
\* request when it returns or raises, whatever the provider answered; a
\* get_token call has called the adapter's refresh_token at most once, and that
\* refresh has sent at most one request, also when the refresh failed.
C21_NoRetry ==
    /\ last.op \in AdapterOperations => last.outcome.sent <= 1
    /\ last.op = "get_token"
          => /\ RefreshCalls(last.calls) <= 1
             /\ last.refreshed.sent <= 1

\* C21 witness: an adapter's refresh of get_token got a failure from the
\* provider after one request, and get_token went on to delete the record
C21_Witness ==
    /\ last.op = "get_token"
    /\ RefreshCalls(last.calls) = 1
    /\ ~last.refreshed.ok
    /\ last.refreshed.sent = 1
    /\ last.calls[Len(last.calls)] = "delete_token"

\* what tells one error outcome from another without reading message text:
\* the exception class and, for an HTTPException, its status
ErrorKind(outcome) == <<outcome.exc, outcome.status>>
\* the outcome the operation at hand has on the current instance for a reply
OutcomeOf(op, rt, reply) ==
    IF op = "refresh_token"
    THEN refresh_outcome(provider, client_id_of(provider), rt, reply, clock)
    ELSE ExchangeOutcome(reply)

\* C22: when an exchange or a refresh that sent its request fails at the
\* transport (connection error, timeout), the error raised differs, in class or
\* status, from the error the same operation raises for every non-2xx response
\* of the provider
C22_TransportFailureDistinct ==
    (/\ last.op \in {"exchange_code_for_token", "refresh_token"}
     /\ last.reply.kind = "transport"
     /\ last.outcome.sent > 0)
        => /\ ~last.outcome.ok
           /\ \A reply \in ErrorReplies(ErrorBody), rt \in RefreshTokens :
                 ErrorKind(OutcomeOf(last.op, rt, reply)) # ErrorKind(last.outcome)

\* C23: when refresh_token(r) has sent its request and the provider's success
\* response carries no refresh token, the response the adapter returns carries r
C23_OriginalRefreshTokenReused ==
    (/\ last.op = "refresh_token"
     /\ last.outcome.sent > 0
     /\ last.outcome.ok
     /\ ~Has(last.reply.body.refresh_token))
        => last.outcome.value.refresh_token = last.arg

\* C24: when an exchange or a refresh has sent its request and the provider
\* answered 200 with a complete token body, the call returns a response whose
\* scope is, for a scope given as a list, the list's elements joined by single
\* spaces in order, and for a scope given as a string, that string
C24_ScopeNormalized ==
    (/\ last.op \in {"exchange_code_for_token", "refresh_token"}
     /\ last.outcome.sent > 0
     /\ last.reply.kind = "response" /\ last.reply.status = HTTP_200
     /\ Has(last.reply.body.access_token) /\ Has(last.reply.body.token_type)
     /\ Has(last.reply.body.expires_in))
        => /\ last.outcome.ok
           /\ Has(last.reply.body.scope_list)
                => last.outcome.value.scope = JoinSpace(Val(last.reply.body.scope_list))
           /\ Has(last.reply.body.scope)
                => last.outcome.value.scope = Val(last.reply.body.scope)

\* ------------------------------------------- properties of the PKCE helpers
\* C25: every code verifier generate_code_verifier returns is between 43 and
\* 128 characters long and made of letters and digits only
C25_VerifierLengthAndAlphabet ==
    last.op = "generate_code_verifier"
        => /\ Len(last.result) >= 43
           /\ Len(last.result) <= 128
           /\ \A i \in 1..Len(last.result) : IsAlnum(last.result[i])

\* the code verifier and the code challenge of the example of RFC 7636, Appendix B
Rfc7636Verifier ==
    <<
      "d", "B", "j", "f", "t", "J", "e", "Z", "4", "C", "V", "P", "-", "m", "B", "9",
      "2", "K", "2", "7", "u", "h", "b", "U", "J", "U", "1", "p", "1", "r", "_", "w",
      "W", "1", "g", "F", "W", "F", "O", "E", "j", "X", "k">>
Rfc7636Challenge ==
    <<
      "E", "9", "M", "e", "l", "h", "o", "a", "2", "O", "w", "v", "F", "r", "E", "M",
      "T", "J", "g", "u", "C", "H", "a", "o", "e", "K", "1", "t", "8", "U", "R", "W",
      "b", "u", "G", "J", "S", "s", "t", "w", "-", "c", "M">>

\* C26: the code challenge of a verifier v is the URL-safe base64 encoding of the
\* SHA-256 digest of v with the "=" padding removed (forty-three characters of
\* the URL-safe alphabet, equal to the padded encoding up to its padding), and
\* the verifier of the RFC 7636 example gives the challenge published there
C26_ChallengeIsUnpaddedS256 ==
    last.op = "generate_code_challenge"
        => LET padded == urlsafe_b64encode(sha256(encode_utf8(last.arg)))
           IN  /\ Len(last.result) = 43
               /\ \A i \in 1..Len(last.result) : last.result[i] # "="
               /\ SubSeq(padded, 1, 43) = last.result
               /\ padded[44] = "="
               /\ last.arg = Rfc7636Verifier => last.result = Rfc7636Challenge
C26_Witness ==
    /\ last.op = "generate_code_challenge"
    /\ last.arg = Rfc7636Verifier
    /\ last.result = Rfc7636Challenge

\* --------------------------------------------- network calls of the adapters
\* requests.post, requests.get and the OAuth2Session calls are made without a
\* timeout argument: such a call returns when the provider answers or when the
\* connection fails, and no other event ends it. The handlers are coroutines
\* that make these calls synchronously, so one call is in progress at a time.
NetMethods == {"exchange_code_for_token", "refresh_token", "get_user_info", "get_token"}
NoReply == Reply("transport", 0, ErrorBody, "")
\* the position of a call: the method, its refresh_token argument, the clock at
\* its start and the provider's reply once it has arrived
NetCall(pc, method, arg, since, reply) ==
    [pc |-> pc, method |-> method, arg |-> arg, since |-> since, reply |-> reply]
NetOp(op, method, outcome) == [op |-> op, method |-> method, outcome |-> outcome]

\* the method sends a request to the provider: outside placeholder mode for the
\* adapter methods, on the auto-refresh path for get_token
SendsRequest(method) ==
    IF method = "get_token"
    THEN Probe(tokens, provider, "u1").refreshed.sent > 0
    ELSE ~IsPlaceholder(provider, client_id_of(provider))

\* what the provider can answer to the request of a call
NetRepliesTo(call) ==
    CASE call.pc # "waiting" -> {}
      [] call.pc = "waiting" /\ call.method = "get_user_info" -> UserReplies
      [] call.pc = "waiting" /\ call.method = "get_token" -> RefreshReplies
      [] OTHER -> ProviderReplies

InitNet ==
    /\ config \in Configs
    /\ provider \in AdapterClasses
    /\ clock = StartClock
    /\ \E token \in AdapterTokens : tokens = store_token({}, provider, "u1", token, StartClock)
    /\ last = NetOp("init", "", NoOutcome)
    /\ code_verifiers = {}
    /\ threads = [th \in Threads |-> Idle]
    /\ issued = 0
    /\ resolved = <<>>

\* time passes
NetTick ==
    /\ clock < EndClock
    /\ clock' = clock + 1
    /\ last' = NetOp("tick", "", NoOutcome)
    /\ UNCHANGED <<config, provider, tokens>>
    /\ UNCHANGED pkce_vars

\* a caller enters a method; the method runs up to its request, or up to its
\* return when it sends none
NetEnter(th, method, arg) ==
    /\ \A other \in Threads : threads[other].pc = "idle"
    /\ threads' = [threads EXCEPT ![th] =
                      NetCall(IF SendsRequest(method) THEN "waiting" ELSE "returning",
                              method, arg, clock, NoReply)]
    /\ last' = NetOp("enter", method, NoOutcome)
    /\ UNCHANGED <<config, provider, tokens, clock, code_verifiers, issued, resolved>>

\* the provider answers, or the connection fails
NetRespond(th) ==
    /\ threads[th].pc = "waiting"
    /\ \E reply \in NetRepliesTo(threads[th]) :
          threads' = [threads EXCEPT ![th].pc = "returning", ![th].reply = reply]
    /\ last' = NetOp("respond", threads[th].method, NoOutcome)
    /\ UNCHANGED <<config, provider, tokens, clock, code_verifiers, issued, resolved>>

\* the outcome of an adapter method for the reply its request got
NetOutcome(call) ==
    CASE call.method = "exchange_code_for_token" -> ExchangeOutcome(call.reply)
      [] call.method = "refresh_token" ->
            refresh_outcome(provider, client_id_of(provider), call.arg, call.reply, clock)
      [] call.method = "get_user_info" ->
            get_user_info(provider, client_id_of(provider), call.reply)

\* the method runs from the reply to its return
NetReturn(th) ==
    LET call == threads[th]
    IN  /\ call.pc = "returning"
        /\ threads' = [threads EXCEPT ![th] = Idle]
        /\ IF call.method = "get_token"
           THEN LET r == get_token(tokens, provider, client_id_of(provider), "u1",
                                   call.since, call.reply, clock - call.since)
                IN  /\ tokens' = r.tokens
                    /\ last' = NetOp("return", call.method,
                                     IF r.refreshed.ok THEN Success(r.refreshed.value, r.refreshed.sent)
                                     ELSE Failure(r.refreshed.exc, r.refreshed.status, "",
                                                  r.refreshed.sent))
           ELSE /\ tokens' = tokens
                /\ last' = NetOp("return", call.method, NetOutcome(call))
        /\ UNCHANGED <<config, provider, clock, code_verifiers, issued, resolved>>

NextNet ==
    \/ NetTick
    \/ \E th \in Threads, method \in NetMethods :
          NetEnter(th, method, IF method = "refresh_token" THEN "r1" ELSE None)
    \/ \E th \in Threads : NetRespond(th)
    \/ \E th \in Threads : NetReturn(th)

\* the code of a method runs on once it has its reply; nothing makes a provider
\* answer
SpecNet ==
    /\ InitNet
    /\ [][NextNet]_vars
    /\ WF_vars(\E th \in Threads : NetReturn(th))

\* C27: every call of exchange, refresh, user info and get_token that has sent a
\* request to the provider eventually returns, even when the provider never
\* answers
C27_CallsEventuallyReturn ==
    \A th \in Threads : (threads[th].pc = "waiting") ~> (threads[th].pc = "idle")

\* ------------------------- one service instance, concurrent store_token calls
\* A call of BaseOAuthService.store_token in progress: the OAuthToken it has
\* built (lines 92-104) and not yet assigned (line 108), or has assigned.
StoreCall(pc, user_id, record) ==
    [pc |-> pc, op |-> "store_token", user_id |-> user_id, record |-> record,
     overlapped |-> FALSE]

\* lines 92-104: expires_at and the OAuthToken object, locals of the call
store_token_build(p, user_id, token, t) ==
    OAuthToken(user_id, p, token.access_token, token.token_type, token.expires_in,
               token.refresh_token, token.scope, IntTime(t) + token.expires_in)

\* mutant of store_token_assign: the fields of the entry are written one by one
\* and the write stops after the first
store_token_assign_fieldwise(toks, key, oauth_token) ==
    IF DictHas(toks, key)
    THEN DictSet(toks, key,
                 [DictGet(toks, key) EXCEPT !.access_token = oauth_token.access_token])
    ELSE DictSet(toks, key, oauth_token)

\* line 108: self._tokens[key] = oauth_token, one assignment of a reference to
\* the finished object
store_token_assign(toks, key, oauth_token) == DictSet(toks, key, oauth_token)

\* the token responses the concurrent callers store: they differ in every field
StoreInputs ==
    {OAuthTokenResponse("a1", "Bearer", REFRESH_WINDOW + 1, "r1", "read write"),
     OAuthTokenResponse("a2", "bearer", REFRESH_WINDOW - 1, None, None)}

InitStore ==
    /\ config \in Configs
    /\ provider \in AdapterClasses
    /\ clock = StartClock
    /\ \E token \in AdapterTokens :
          /\ tokens = store_token({}, provider, "u1", token, StartClock)
          /\ last = ConcOp("init", "", DictGet(tokens, Key("u1", provider)))
    /\ code_verifiers = {}
    /\ threads = [th \in Threads |-> Idle]
    /\ issued = 0
    /\ resolved = <<>>

\* time passes
StoreTick ==
    /\ clock < EndClock
    /\ clock' = clock + 1
    /\ last' = ConcOp("tick", "", last.initial)
    /\ UNCHANGED <<config, provider, tokens>>
    /\ UNCHANGED pkce_vars

\* a caller enters service.store_token(user_id, token) and runs lines 92-107
StoreBuild(th, user_id, token) ==
    /\ threads[th].pc = "idle"
    /\ threads' = [threads EXCEPT ![th] =
                      StoreCall("assign", user_id,
                                store_token_build(provider, user_id, token, clock))]
    /\ last' = ConcOp("store_token_build", th, last.initial)
    /\ UNCHANGED <<config, provider, tokens, clock, code_verifiers, issued, resolved>>

\* the caller runs line 108 and returns
StoreAssign(th) ==
    /\ threads[th].pc = "assign"
    /\ tokens' = store_token_assign(tokens, Key(threads[th].user_id, provider),
                                    threads[th].record)
    /\ threads' = [threads EXCEPT ![th].pc = "done"]
    /\ last' = ConcOp("store_token_assign", th, last.initial)
    /\ UNCHANGED <<config, provider, clock, code_verifiers, issued, resolved>>

NextStore ==
    \/ StoreTick
    \/ \E th \in Threads, token \in StoreInputs : StoreBuild(th, "u1", token)
    \/ \E th \in Threads : StoreAssign(th)
    \/ \E th \in Threads : GetTokenRead(th, "u1")
    \/ \E th \in Threads, reply \in RefreshReplies : GetTokenRefresh(th, reply)
    \/ \E th \in Threads : GetTokenStore(th)
    \/ \E th \in Threads : GetTokenReread(th)
    \/ \E th \in Threads : GetTokenDeleteTest(th)
    \/ \E th \in Threads : GetTokenDel(th)

SpecStore == InitStore /\ [][NextStore]_vars

\* the calls of store_token that have built their record
StoreCalls == {th \in Threads : threads[th].pc # "idle" /\ threads[th].op = "store_token"}
\* the calls of get_token that have stored the refreshed token (line 132)
RefreshStores ==
    {th \in Threads : threads[th].pc \in {"reread", "done"} /\ threads[th].op = "get_token"
                      /\ threads[th].new_token.ok}
\* the records some call has built in full since the start
WholeRecords ==
    {last.initial}
    \cup {threads[th].record : th \in StoreCalls}
    \cup {store_token_build(provider, "u1", threads[th].new_token.value, t) :
            th \in RefreshStores, t \in StartClock..clock}

\* C28: under every interleaving of two store_token calls for one key (and of a
\* store_token call with a get_token call) the entry of the key is a record one
\* call built in full, never a mix; once two store_token calls have returned the
\* entry is one of their two records, the one of the call that assigned last;
\* and the record a get_token call reads is a record built in full
C28_StoreHoldsWholeRecords ==
    LET key == Key("u1", provider)
    IN  /\ DictHas(tokens, key) => DictGet(tokens, key) \in WholeRecords
        /\ Cardinality({item \in tokens : item[1] = key}) <= 1
        /\ (StoreCalls = Threads /\ \A th \in Threads : threads[th].pc = "done")
              => DictGet(tokens, key) \in {threads[th].record : th \in Threads}
        /\ last.op = "store_token_assign"
              => DictGet(tokens, key) = threads[last.thread].record
        /\ \A th \in Threads :
              (threads[th].pc # "idle" /\ threads[th].op = "get_token"
                 /\ threads[th].token # NoToken)
                 => threads[th].token \in WholeRecords
C28_Witness ==
    /\ StoreCalls = Threads
    /\ \A th \in Threads : threads[th].pc = "done"
    /\ threads["t1"].record.access_token # threads["t2"].record.access_token
    /\ last.thread = "t1"
    /\ DictGet(tokens, Key("u1", provider)) = threads["t1"].record

\* --------------------------- one Twitter service instance, one call at a time
\* one call of exchange_code_for_token: its arguments, whether the state was a
\* key of self._code_verifiers when the call started, and its outcome
SeqOp(op, code_verifier, state, registered, result) ==
    [op |-> op, code_verifier |-> code_verifier, state |-> state,
     registered |-> registered, result |-> result]

InitSeq ==
    /\ config \in Configs
    /\ provider = "twitter"
    /\ tokens = {}
    /\ clock = StartClock
    /\ last = SeqOp("init", None, None, FALSE, NoOutcome)
    /\ code_verifiers = {}
    /\ threads = [th \in Threads |-> Idle]
    /\ issued = 0
    /\ resolved = <<>>

\* a caller runs service.get_authorization_url()
SeqGetAuthorizationUrl(state) ==
    LET r == twitter_get_authorization_url(code_verifiers, client_id_of("twitter"),
                                           state, generate_code_verifier(issued + 1))
    IN  /\ issued < MaxIssued
        /\ issued' = issued + 1
        /\ code_verifiers' = r.code_verifiers
        /\ last' = SeqOp("get_authorization_url", None, state, FALSE, NoOutcome)
        /\ UNCHANGED <<config, provider, tokens, clock, threads, resolved>>

\* a caller runs service.exchange_code_for_token(code, code_verifier, state)
\* from its first line to its return
SeqExchange(code_verifier, state, reply) ==
    LET r == twitter_exchange_code_for_token(code_verifiers, client_id_of("twitter"),
                                             code_verifier, state, reply, clock)
    IN  /\ code_verifiers' = r.code_verifiers
        /\ resolved' = resolved \o (IF r.from_store THEN <<<<state, r.code_verifier>>>>
                                    ELSE <<>>)
        /\ last' = SeqOp("exchange_code_for_token", code_verifier, state,
                         \E item \in code_verifiers : item[1] = state, r.result)
        /\ UNCHANGED <<config, provider, tokens, clock, threads, issued>>

NextSeq ==
    \/ \E state \in States : SeqGetAuthorizationUrl(state)
    \/ \E code_verifier \in CallerVerifiers, state \in OptStates, reply \in ExchangeReplies :
          SeqExchange(code_verifier, state, reply)

SpecSeq == InitSeq /\ [][NextSeq]_vars

\* C29: an exchange attempted with a state s that was registered leaves no entry
\* for s, whatever its other arguments and its outcome
C29_ExchangeRemovesEntry ==
    (last.op = "exchange_code_for_token" /\ last.registered)
        => ~(\E item \in code_verifiers : item[1] = last.state)

\* C30: after a successful auto-refresh of get_token the stored record still has
\* a non-empty refresh token, for every adapter and whether or not the provider
\* sent a new refresh token, so that the next get_token near expiry can refresh
\* again
C30_StaysRefreshable ==
    (last.op = "get_token" /\ last.refreshed.ok)
        => /\ DictHas(tokens, Key(last.user_id, provider))
           /\ TruthyStr(DictGet(tokens, Key(last.user_id, provider)).refresh_token)

\* ------------------------------------------- properties of the synthetic token
\* the placeholder branch of the adapter writes a log record (logger.warning):
\* only the Google adapter does
mock_token_logged(p) == p = "google"
\* the fields of a normalized token response other than the two token values
NonValueFields(token) ==
    [token_type |-> token.token_type, expires_in |-> token.expires_in,
     scope |-> token.scope]
\* a token the provider issues with the type, the lifetime and the scope the
\* adapter's synthetic token has
LookalikeReply(p) ==
    Reply("response", HTTP_200,
          [access_token |-> <<"a1">>, token_type |-> <<"Bearer">>,
           expires_in |-> <<IF p = "twitter" THEN TWITTER_MOCK_EXPIRES_IN
                            ELSE MOCK_EXPIRES_IN>>,
           refresh_token |-> <<"r1">>,
           scope |-> <<CASE p = "sketchfab" -> "read write"
                         [] p = "google" -> "openid email profile"
                         [] p = "twitter" -> "tweet.read users.read offline.access">>,
           scope_list |-> Absent], "")
\* what the adapter returns for that token when it has a client id
LookalikeToken(p) == refresh_token(p, "client-id", "r1", LookalikeReply(p), clock).value

\* C31: with an absent or placeholder client id, exchange, refresh and user info
\* of every adapter return a synthetic result and send nothing to the provider,
\* and the synthetic token differs from what the adapter returns for a token of
\* the provider in something other than the access token and the refresh token
\* (a field of the response or a log record of the call)
C31_SyntheticResultLabelled ==
    (last.op \in AdapterOperations /\ IsPlaceholder(provider, client_id_of(provider)))
        => /\ last.outcome.ok
           /\ last.outcome.sent = 0
           /\ last.op # "get_user_info"
                 => \/ mock_token_logged(provider)
                    \/ NonValueFields(last.outcome.value)
                         # NonValueFields(LookalikeToken(provider))

\* the keys of the token a callback returns
TokenFields == {"access_token", "token_type", "expires_in", "refresh_token", "scope"}

\* C32: a successful callback for google returns the normalized token fields
\* after the exchange alone: the handler calls neither get_user_info nor
\* store_token, and the store of its service instance holds no record
C32_GoogleCallbackTerminal ==
    (last.op = "callback" /\ last.provider = "google" /\ last.status = HTTP_200)
        => /\ last.calls = <<"exchange_code_for_token">>
           /\ DOMAIN last.body = TokenFields
           /\ tokens = NewTokens
C32_Witness ==
    /\ last.op = "callback"
    /\ last.provider = "google"
    /\ last.status = HTTP_200
    /\ ~IsPlaceholder("google", client_id_of("google"))
    /\ last.body.access_token = "a1"
    /\ tokens = NewTokens

\* the values a caller puts in the query of a callback
CallerSupplied(query) == {query.code, query.state, query.code_verifier} \ {None}

C34_RefreshRouteFollowsStore ==
    [][ (/\ last'.op = "refresh"
         /\ is_provider_supported(last'.provider)
         /\ last'.provider = provider)
        => /\ Held(last'.user_id) = NoToken
                 => /\ last'.status = HTTP_404
                    /\ RefreshCalls(last'.calls) = 0
                    /\ tokens' = NewTokens
           /\ (/\ Held(last'.user_id) # NoToken
               /\ AtLeastWindowAfter(Held(last'.user_id), last'.now))
                 => /\ last'.status # HTTP_404
                    /\ RefreshCalls(last'.calls) = 1 ]_vars

\* the part of C34 about a user without a record, which the route satisfies
C34_NoRecordAnswers404 ==
    [][ (/\ last'.op = "refresh"
         /\ is_provider_supported(last'.provider)
         /\ last'.provider = provider
         /\ Held(last'.user_id) = NoToken)
        => /\ last'.status = HTTP_404
           /\ RefreshCalls(last'.calls) = 0
           /\ tokens' = NewTokens ]_vars


\* ---------------------------------------------------------------------------
\* The store is keyed by user: what an operation for one user leaves alone
\* (oauth_base.py 84-108, 110-144, 146-155).

\* the records held under the keys of the users other than user_id
RecordsOfOthers(toks, user_id) == {item \in toks : item[1] # Key(user_id, provider)}

\* C35: store_token, get_token (its refresh and delete paths included) and
\* delete_token for user u neither add, change nor remove the record of another
\* user, and get_token for a key without a record returns None, calls no adapter
\* operation and leaves the store as it was.
C35_OtherUsersUntouched ==
    [][ last'.op \in {"store_token", "get_token", "delete_token"}
        => /\ RecordsOfOthers(tokens', last'.user_id) = RecordsOfOthers(tokens, last'.user_id)
           /\ (last'.op = "get_token" /\ Held(last'.user_id) = NoToken)
                 => /\ last'.ret = NoToken
                    /\ last'.calls = <<"get">>
                    /\ last'.refreshed.sent = 0
                    /\ tokens' = tokens ]_vars

\* another user's record is held while get_token has just removed the record of
\* the user it was called for
C35_Witness ==
    /\ last.op = "get_token"
    /\ last.calls[Len(last.calls)] = "delete_token"
    /\ Held(last.user_id) = NoToken
    /\ RecordsOfOthers(tokens, last.user_id) # {}


\* ---------------------------------------------------------------------------
\* The life of one record on one service instance: stored, read, removed by
\* get_token, stored again (oauth_base.py 84-155).  The observation keeps the
\* users whose record get_token has removed and store_token has not put back.

LifeOp(op, user_id, now, res, before, removed) ==
    [op |-> op, user_id |-> user_id, now |-> now, ret |-> res.ret,
     raised |-> res.raised, calls |-> res.calls, refreshed |-> res.refreshed,
     before |-> before, removed |-> removed]

InitLife ==
    /\ config \in Configs
    /\ provider \in AdapterClasses
    /\ tokens = {}
    /\ clock = StartClock
    /\ last = LifeOp("init", "", StartClock, NoResult, {}, {})
    /\ code_verifiers = {}
    /\ threads = [th \in Threads |-> Idle]
    /\ issued = 0
    /\ resolved = <<>>

\* time passes
LifeTick ==
    /\ clock < EndClock
    /\ clock' = clock + 1
    /\ last' = LifeOp("tick", "", clock, NoResult, last.removed, last.removed)
    /\ UNCHANGED <<config, provider, tokens>>
    /\ UNCHANGED pkce_vars

\* service.store_token(user_id, token)
LifeStoreToken(user_id, token) ==
    /\ tokens' = store_token(tokens, provider, user_id, token, clock)
    /\ last' = LifeOp("store_token", user_id, clock,
                      [NoResult EXCEPT !.calls = <<"store_token">>],
                      last.removed, last.removed \ {user_id})
    /\ UNCHANGED <<config, provider, clock>>
    /\ UNCHANGED pkce_vars

\* service.get_token(user_id)
LifeGetToken(user_id, reply, d) ==
    LET r == get_token(tokens, provider, client_id_of(provider), user_id, clock, reply, d)
    IN  /\ clock + d <= EndClock
        /\ tokens' = r.tokens
        /\ clock' = r.clock
        /\ last' = LifeOp("get_token", user_id, clock, r, last.removed,
                          IF r.calls[Len(r.calls)] = "delete_token"
                          THEN last.removed \cup {user_id} ELSE last.removed)
        /\ UNCHANGED <<config, provider>>
        /\ UNCHANGED pkce_vars

\* service.delete_token(user_id)
LifeDeleteToken(user_id) ==
    /\ tokens' = delete_token(tokens, provider, user_id)
    /\ last' = LifeOp("delete_token", user_id, clock,
                      [NoResult EXCEPT !.calls = <<"delete_token">>],
                      last.removed, last.removed)
    /\ UNCHANGED <<config, provider, clock>>
    /\ UNCHANGED pkce_vars

NextLife ==
    \/ LifeTick
    \/ \E u \in Users : \E token \in Inputs(u) : LifeStoreToken(u, token)
    \/ \E u \in Users : \E reply \in RepliesTo(tokens, provider, u),
                           d \in DurationsOf(tokens, provider, u) : LifeGetToken(u, reply, d)
    \/ \E u \in Users : LifeDeleteToken(u)

SpecLife == InitLife /\ [][NextLife]_vars

\* C36: once get_token has removed a user's record (its refresh failed, or the
\* record had no refresh token), every later get_token for that user returns
\* None and sends nothing to the provider, until store_token runs for that user.
C36_RemovedStaysAbsent ==
    (last.op = "get_token" /\ last.user_id \in last.before)
        => /\ last.ret = NoToken
           /\ last.calls = <<"get">>
           /\ last.refreshed.sent = 0
           /\ ~last.raised
           /\ Held(last.user_id) = NoToken

\* get_token for a user whose record an earlier get_token removed, while the
\* other user's record is held
C36_Witness ==
    /\ last.op = "get_token"
    /\ last.user_id \in last.before
    /\ last.ret = NoToken
    /\ tokens # {}


\* ---------------------------------------------------------------------------
\* delete_token reached by two callers for the same key (oauth_base.py 146-155,
\* 135-142).

\* C37: under every interleaving of the membership test and the removal in
\* delete_token, the callers of get_token for one key complete without raising:
\* each returns None or a record, and after a caller has removed the key the
\* store does not hold it unless a caller has stored it again.
C37_DeleteNeverRaises ==
    \A th \in Threads :
        (last.op # "init" /\ threads[th].pc = "done")
            => /\ ~threads[th].raised
               /\ (last.op = "get_token_del" /\ last.thread = th)
                     => ~DictHas(tokens, Key(threads[th].user_id, provider))

\* the removal of line 155 on its own: whichever caller runs it, the key is
\* absent afterwards
C37_KeyAbsentAfterDel ==
    last.op = "get_token_del" => ~DictHas(tokens, Key(threads[last.thread].user_id, provider))


\* ---------------------------------------------------------------------------
\* The provider sets of the configuration (providers.py 12-26, settings.py
\* 63-106, routers/oauth.py 18-19).

\* the keys of the dictionary in Settings.get_oauth_config
oauth_config_providers == {"sketchfab", "google", "twitter"}
\* PKCE_PROVIDERS of routers/oauth.py
PKCE_PROVIDERS == {"twitter"}

\* C38: every provider name that has a configuration entry or is listed as a
\* PKCE provider is in the supported-provider list, so that an authorize or
\* callback request for it is not answered "Unsupported provider".
C38_ProviderSetsAgree ==
    (/\ last.op \in {"authorize", "callback"}
     /\ last.provider \in oauth_config_providers \cup PKCE_PROVIDERS)
        => /\ is_provider_supported(last.provider)
           /\ last.detail # "Unsupported provider: " \o last.provider

\* what holds of the names the registry does list: authorize and callback for
\* them are not rejected as unsupported
C38_RegisteredReachAdapter ==
    (last.op \in {"authorize", "callback"} /\ last.provider \in get_supported_providers)
        => last.detail # "Unsupported provider: " \o last.provider

====
